---------------------------- MODULE Spec2Model ----------------------------
(***************************************************************************)
(* Model of the xetrade core: the cross-venue quote aggregator             *)
(* (services/aggregator.py), the order-book execution simulator            *)
(* (services/price_impact.py), the order book and the trading pair         *)
(* (models.py), the universal symbol mapper (utils/symbol_mapper.py), the  *)
(* HTTP transport (utils/http.py), order placement (services/trading.py)   *)
(* and the capture and storage of order-book snapshots                     *)
(* (services/historical_data.py).                                          *)
(*                                                                         *)
(* Conventions.                                                            *)
(*  - Python's None is the empty sequence None, a present value x is       *)
(*    Some(x) = <<x>>.                                                     *)
(*  - A Python str is a sequence of one-character strings.                 *)
(*  - Quote-currency amounts and base quantities of the book walk are      *)
(*    integers counted in units of 1e-12 (so the break threshold 1e-12 of  *)
(*    walk_book is 1 unit); prices are plain ratios.  Arithmetic is exact; *)
(*    a quotient is kept as a fraction [num, den].                         *)
(*  - Quote.ts_ms and OrderBook.ts_ms take no part in any computation      *)
(*    modelled here and are left out.                                      *)
(***************************************************************************)
EXTENDS Integers, Sequences, FiniteSets, TLC

VARIABLES
    \* ---- aggregator (services/aggregator.py) ----
    exchanges,      \* the venues handed to best_across_venues, in submission order
    responds,       \* venue -> whether its get_best_bid_ask call ever completes
    task,           \* venue -> state of its task: "none", "pending", "returned", "raised"
    taskQuote,      \* venue -> Some(Quote) once its call has returned
    completed,      \* venues in the order their tasks completed (as_completed's queue)
    consumed,       \* number of completed tasks the loop of gather_quotes has awaited
    results,        \* the list `results` of gather_quotes
    aggPc,          \* "call", "creating", "awaiting", "done", "raised"
    aggResult,      \* Some(the dict best_across_venues returns)
    \* ---- execution simulator (services/price_impact.py) ----
    book,               \* the OrderBook argument: [bids, asks], lists of Level
    side,               \* "buy" or "sell"
    trade_volume_quote, \* the requested notional
    walkPc,             \* "call", "loop", "after_loop", "returned", "raised"
    lvl,                \* index in `levels` of the level the for loop visits next
    remaining_q,        \* local remaining_q
    spent_q,            \* local spent_q
    filled_base,        \* local filled_base, as a numerator over BaseDen
    takes,              \* history: take_q of every level visited (0 when skipped)
    broke,              \* whether the for loop ended by its break
    walkResult,         \* Some([avg_exec, filled_base]) once walk_book returned
    \* ---- symbol mapper (utils/symbol_mapper.py) ----
    exchange_symbol,    \* the argument exchange_symbol of map_symbol
    exchange,           \* the argument exchange of map_symbol
    mapPc,              \* "call", "returned"
    mapping,            \* Some(the SymbolMapping returned)
    \* ---- order book (models.py) ----
    ob_raw,             \* the OrderBook as the adapter built it from the venue's reply
    ob,                 \* the OrderBook at hand: ob_raw, then what sort_l2 returned
    ob_before,          \* the book the last sort_l2 was applied to
    sorts,              \* how many times sort_l2 was applied
    top,                \* Some([fn, value]): the last best_bid/best_ask/mid call on ob
    obPc,               \* "idle", "live"
    \* ---- price impact (services/price_impact.py: price_impact_pct) ----
    impactPc,           \* "idle", "walking", "returned", "raised"
    impact,             \* Some(the float price_impact_pct returned)
    \* ---- trading pair (models.py: Pair.parse) ----
    pair_s,             \* the argument s of Pair.parse
    pairPc,             \* "idle", "call", "returned", "raised"
    pair,               \* Some(the Pair returned)
    \* ---- symbol mapper: validate_mapping, get_exchange_symbol ----
    api_call,           \* [fn, ...]: the method called and its arguments
    apiPc,              \* "idle", "call", "returned"
    api_result,         \* Some(what the method returned)
    \* ---- HTTP transport (utils/http.py: HTTPClient.get_json) ----
    retries,            \* the argument retries
    attempt,            \* local attempt
    last_err,           \* local last_err: None or Some(the error caught)
    sent,               \* history: the outcome of every request issued, in order
    httpPc,             \* "idle", "while", "after_loop", "returned", "raised"
    httpResult,         \* Some([kind, ...]): the value returned or the error raised
    \* ---- trading (services/trading.py: UnifiedTradingService) ----
    svc_exchanges,      \* self.exchanges: a list of [name, supports_trading]
    venue,              \* the argument venue of place_order: None or Some(name)
    contacted,          \* history: [name, outcome] of every exchange.place_order awaited
    tradePc,            \* "idle", "call", "returned", "raised"
    tradeResult,        \* Some(the TradingResult returned)
    \* ---- data capture (services/historical_data.py) ----
    services,           \* DataCaptureManager.services: session id -> service (0: no entry)
    svcs,               \* the HistoricalDataService objects created, each
                        \* [running, pc, stored]: pc is the place of its
                        \* start_capture task, stored what its last
                        \* store_batch returned ("none", "ok", "failed")
    file_handle,        \* LocalFileStorage.file_handle: "none", "open", "closed"
    snapshots_in_file,  \* LocalFileStorage.snapshots_in_file
    capPc,              \* "idle", "live"
    \* ---- buffered storage (historical_data.py: S3ParquetStorage) ----
    buffer,             \* self.buffer: the snapshots held, by sequence number
    accepted,           \* history: how many snapshots the store calls were given
    files,              \* the files written: second of the clock -> the batch in
                        \* the file named after that second (<<>>: no file)
    clock,              \* datetime.now(), in whole seconds
    s3Pc,               \* "idle", "open", "closed"
    s3_last             \* Some([fn, ok]): the last call and what it returned

aggVars == <<exchanges, responds, task, taskQuote, completed, consumed,
             results, aggPc, aggResult>>

walkVars == <<book, side, trade_volume_quote, walkPc, lvl, remaining_q,
              spent_q, filled_base, takes, broke, walkResult>>

mapVars == <<exchange_symbol, exchange, mapPc, mapping>>

obVars == <<ob_raw, ob, ob_before, sorts, top, obPc>>

impactVars == <<impactPc, impact>>

pairVars == <<pair_s, pairPc, pair>>

apiVars == <<api_call, apiPc, api_result>>

httpVars == <<retries, attempt, last_err, sent, httpPc, httpResult>>

tradeVars == <<svc_exchanges, venue, contacted, tradePc, tradeResult>>

capVars == <<services, svcs, file_handle, snapshots_in_file, capPc>>

s3Vars == <<buffer, accepted, files, clock, s3Pc, s3_last>>

\* the variables of the components added after the first six
extVars == <<apiVars, httpVars, tradeVars, capVars, s3Vars>>

coreVars == <<aggVars, walkVars, mapVars, obVars, impactVars, pairVars>>

vars == <<coreVars, extVars>>

nonAggVars == <<walkVars, mapVars, obVars, impactVars, pairVars, extVars>>
nonWalkVars == <<aggVars, mapVars, obVars, impactVars, pairVars, extVars>>
nonMapVars == <<aggVars, walkVars, obVars, impactVars, pairVars, extVars>>
nonObVars == <<aggVars, walkVars, mapVars, impactVars, pairVars, extVars>>
nonImpactVars == <<aggVars, walkVars, mapVars, obVars, pairVars, extVars>>
nonPairVars == <<aggVars, walkVars, mapVars, obVars, impactVars, extVars>>
nonApiVars == <<coreVars, httpVars, tradeVars, capVars, s3Vars>>
nonHttpVars == <<coreVars, apiVars, tradeVars, capVars, s3Vars>>
nonTradeVars == <<coreVars, apiVars, httpVars, capVars, s3Vars>>
nonCapVars == <<coreVars, apiVars, httpVars, tradeVars, s3Vars>>
nonS3Vars == <<coreVars, apiVars, httpVars, tradeVars, capVars>>

None == <<>>
Some(x) == <<x>>

--------------------------------------------------------------------------
(* Bounds *)

MaxVenues == 3
MaxQuotePrice == 2

MaxLevels == 2
MaxPrice == 2
MaxQty == 2
MaxNotional == 9
MaxMultiplierDigits == 2
MaxSorts == 2
\* the largest argument retries of get_json (DEFAULT_RETRIES is 3)
MaxRetries == 2
\* the most exchanges of a UnifiedTradingService
MaxExchanges == 3
\* the most HistoricalDataService objects one manager creates
MaxServices == 3
\* LocalFileStorage.max_snapshots_per_file (1000 in the code), scaled down
MaxSnapshotsPerFile == 2
\* S3ParquetStorage.max_buffer_size (100 in the code), scaled down
MaxBufferSize == 2
\* the most snapshots handed to one S3ParquetStorage
MaxSnapshots == 4
\* the last second of the clock
MaxClock == 2

Venues == 1..MaxVenues
QuotePrices == 1..MaxQuotePrice
Prices == 1..MaxPrice
Qtys == 0..MaxQty
Notionals == (-1)..MaxNotional

--------------------------------------------------------------------------
(* services/aggregator.py *)

\* models.Quote without ts_ms
Quote(b, a) == [bid |-> b, ask |-> a]

\* aggregator.VenueQuote
VenueQuote(v, q) == [venue |-> v, quote |-> q]

\* best_on_venue: the value the task of venue v returns
best_on_venue(v, q) == VenueQuote(v, q)

\* Mutant of except_Exception: the venue's exception leaves gather_quotes.
except_Exception_Propagates(res) == [pc |-> "raised", results |-> res]

\* The `except Exception: pass` of gather_quotes: the failed venue is skipped
\* and the loop goes on with the list unchanged.
except_Exception(res) == [pc |-> "awaiting", results |-> res]

\* Mutant of as_completed: `for t in tasks: await t`, the k-th awaited task
\* is the k-th submitted one.
as_completed_InSubmissionOrder(done, subm, st, k) ==
    IF k <= Len(subm) /\ st[subm[k]] \in {"returned", "raised"}
    THEN Some(subm[k]) ELSE None

\* asyncio.as_completed(tasks): the k-th awaited item resolves to the k-th
\* task to complete, whatever its place in the submitted list; until k tasks
\* have completed the await stays suspended (None).
as_completed(done, subm, st, k) ==
    IF k <= Len(done) THEN Some(done[k]) ELSE None

\* Mutant of loop_exhausted: the loop ends when no completed task is left
\* to take, without waiting for the pending ones.
loop_exhausted_NoneReady(k, subm, done) == k = Len(done)

\* as_completed yields one awaitable per submitted task: the for loop ends
\* after as many iterations as there are tasks.
loop_exhausted(k, subm, done) == k = Len(subm)

\* Mutant of max_by_bid: a later element replaces an equal earlier one.
RECURSIVE max_by_bid_LastWins(_)
max_by_bid_LastWins(quotes) ==
    IF Len(quotes) = 1 THEN quotes[1]
    ELSE LET best == max_by_bid_LastWins(SubSeq(quotes, 1, Len(quotes) - 1))
             last == quotes[Len(quotes)]
         IN  IF last.quote.bid >= best.quote.bid THEN last ELSE best

\* Python's max(quotes, key=bid): the first element with the largest key.
RECURSIVE max_by_bid(_)
max_by_bid(quotes) ==
    IF Len(quotes) = 1 THEN quotes[1]
    ELSE LET best == max_by_bid(SubSeq(quotes, 1, Len(quotes) - 1))
             last == quotes[Len(quotes)]
         IN  IF last.quote.bid > best.quote.bid THEN last ELSE best

\* Python's min(quotes, key=ask): the first element with the smallest key.
RECURSIVE min_by_ask(_)
min_by_ask(quotes) ==
    IF Len(quotes) = 1 THEN quotes[1]
    ELSE LET best == min_by_ask(SubSeq(quotes, 1, Len(quotes) - 1))
             last == quotes[Len(quotes)]
         IN  IF last.quote.ask < best.quote.ask THEN last ELSE best

\* (bid + ask) / 2.0 as an exact fraction
mid_of(bid, ask) == [num |-> bid + ask, den |-> 2]

\* Mutant of select_best: without the empty-list guard, max and min fall
\* back to a default quote.
select_best_DefaultQuote(quotes) ==
    IF quotes = <<>>
    THEN <<Some(VenueQuote(0, Quote(0, 0))), Some(VenueQuote(0, Quote(0, 0)))>>
    ELSE <<Some(max_by_bid(quotes)), Some(min_by_ask(quotes))>>

select_best(quotes) ==
    IF quotes = <<>> THEN <<None, None>>
    ELSE <<Some(max_by_bid(quotes)), Some(min_by_ask(quotes))>>

\* Mutant of mid_result: Quote.mid of the venue holding the best bid, which
\* best_across_venues would get from bid_vq.quote.mid.
mid_result_OfBidVenue(bid_vq, ask_vq) == mid_of(bid_vq.quote.bid, bid_vq.quote.ask)

\* best_across_venues line 56: the mean of the two selected prices.
mid_result(bid_vq, ask_vq) == mid_of(bid_vq.quote.bid, ask_vq.quote.ask)

\* The body of best_across_venues after gather_quotes has returned vqs.
best_across_venues(vqs) ==
    LET sel == select_best(vqs)
        bid_vq == sel[1]
        ask_vq == sel[2]
    IN  IF bid_vq = None \/ ask_vq = None
        THEN [best_bid |-> None, best_ask |-> None, mid |-> None, all |-> vqs]
        ELSE [best_bid |-> Some([venue |-> bid_vq[1].venue, price |-> bid_vq[1].quote.bid]),
              best_ask |-> Some([venue |-> ask_vq[1].venue, price |-> ask_vq[1].quote.ask]),
              mid      |-> Some(mid_result(bid_vq[1], ask_vq[1])),
              all      |-> vqs]

AggInit ==
    /\ \E n \in 0..MaxVenues :
         /\ exchanges = [i \in 1..n |-> i]
         /\ responds \in [1..n -> BOOLEAN]
         /\ task = [v \in 1..n |-> "none"]
         /\ taskQuote = [v \in 1..n |-> None]
    /\ completed = <<>>
    /\ consumed = 0
    /\ results = <<>>
    /\ aggPc = "call"
    /\ aggResult = None

\* gather_quotes line 20: create_task for every venue, in submission order,
\* with no await in between; the tasks run only once gather_quotes awaits.
CreateTasks ==
    /\ aggPc = "call"
    /\ task' = [v \in DOMAIN task |-> "pending"]
    /\ aggPc' = "awaiting"
    /\ UNCHANGED nonAggVars
    /\ UNCHANGED <<exchanges, responds, taskQuote, completed, consumed,
                   results, aggResult>>

\* A venue's get_best_bid_ask returns a quote: its task completes.  A venue's
\* own quote is taken uncrossed (bid <= ask); quotes of different venues may
\* cross each other.
VenueReturns(v) ==
    /\ aggPc = "awaiting"
    /\ v \in DOMAIN task
    /\ task[v] = "pending"
    /\ responds[v]
    /\ \E b \in QuotePrices, a \in QuotePrices :
         /\ b <= a
         /\ taskQuote' = [taskQuote EXCEPT ![v] = Some(Quote(b, a))]
    /\ task' = [task EXCEPT ![v] = "returned"]
    /\ completed' = Append(completed, v)
    /\ UNCHANGED nonAggVars
    /\ UNCHANGED <<exchanges, responds, consumed, results, aggPc, aggResult>>

\* A venue's get_best_bid_ask raises: its task completes with an exception.
VenueRaises(v) ==
    /\ aggPc = "awaiting"
    /\ v \in DOMAIN task
    /\ task[v] = "pending"
    /\ responds[v]
    /\ task' = [task EXCEPT ![v] = "raised"]
    /\ completed' = Append(completed, v)
    /\ UNCHANGED nonAggVars
    /\ UNCHANGED <<exchanges, responds, taskQuote, consumed, results, aggPc,
                   aggResult>>

\* gather_quotes lines 22-24: one iteration whose awaited task returned.
AwaitResult ==
    /\ aggPc = "awaiting"
    /\ ~loop_exhausted(consumed, exchanges, completed)
    /\ LET t == as_completed(completed, exchanges, task, consumed + 1)
       IN  /\ t # None
           /\ task[t[1]] = "returned"
           /\ results' = Append(results, best_on_venue(t[1], taskQuote[t[1]][1]))
    /\ consumed' = consumed + 1
    /\ UNCHANGED nonAggVars
    /\ UNCHANGED <<exchanges, responds, task, taskQuote, completed, aggPc,
                   aggResult>>

\* gather_quotes lines 22-27: one iteration whose awaited task raised.
AwaitException ==
    /\ aggPc = "awaiting"
    /\ ~loop_exhausted(consumed, exchanges, completed)
    /\ LET t == as_completed(completed, exchanges, task, consumed + 1)
           h == except_Exception(results)
       IN  /\ t # None
           /\ task[t[1]] = "raised"
           /\ results' = h.results
           /\ aggPc' = h.pc
    /\ consumed' = consumed + 1
    /\ UNCHANGED nonAggVars
    /\ UNCHANGED <<exchanges, responds, task, taskQuote, completed, aggResult>>

\* gather_quotes line 28 and best_across_venues lines 53-62: the loop has
\* awaited every task; select_best and the result dict follow without a
\* suspension point.
GatherReturn ==
    /\ aggPc = "awaiting"
    /\ loop_exhausted(consumed, exchanges, completed)
    /\ aggResult' = Some(best_across_venues(results))
    /\ aggPc' = "done"
    /\ UNCHANGED nonAggVars
    /\ UNCHANGED <<exchanges, responds, task, taskQuote, completed, consumed,
                   results>>

AggNext ==
    \/ CreateTasks
    \/ \E v \in DOMAIN task : VenueReturns(v)
    \/ \E v \in DOMAIN task : VenueRaises(v)
    \/ AwaitResult
    \/ AwaitException
    \/ GatherReturn


--------------------------------------------------------------------------
(* models.py: Level, OrderBook, sort_l2 *)

Level(p, q) == [price |-> p, qty |-> q]
OrderBook(b, a) == [bids |-> b, asks |-> a]

\* Mutant of sorted_asc: the list is left as the venue sent it.
sorted_asc_AsSent(levels) == levels

\* sorted(levels, key=price): a stable sort, equal prices keep their order.
RECURSIVE sorted_asc(_)
sorted_asc(levels) ==
    IF levels = <<>> THEN <<>>
    ELSE LET init == sorted_asc(SubSeq(levels, 1, Len(levels) - 1))
             x == levels[Len(levels)]
             k == Cardinality({i \in DOMAIN init : init[i].price <= x.price})
         IN  SubSeq(init, 1, k) \o <<x>> \o SubSeq(init, k + 1, Len(init))

\* Mutant of sorted_desc: not stable, levels of equal price are reversed.
RECURSIVE sorted_desc_EqualsReversed(_)
sorted_desc_EqualsReversed(levels) ==
    IF levels = <<>> THEN <<>>
    ELSE LET init == sorted_desc_EqualsReversed(SubSeq(levels, 1, Len(levels) - 1))
             x == levels[Len(levels)]
             k == Cardinality({i \in DOMAIN init : init[i].price > x.price})
         IN  SubSeq(init, 1, k) \o <<x>> \o SubSeq(init, k + 1, Len(init))

\* sorted(levels, key=price, reverse=True): stable as well.
RECURSIVE sorted_desc(_)
sorted_desc(levels) ==
    IF levels = <<>> THEN <<>>
    ELSE LET init == sorted_desc(SubSeq(levels, 1, Len(levels) - 1))
             x == levels[Len(levels)]
             k == Cardinality({i \in DOMAIN init : init[i].price >= x.price})
         IN  SubSeq(init, 1, k) \o <<x>> \o SubSeq(init, k + 1, Len(init))

sort_l2(b) == OrderBook(sorted_desc(b.bids), sorted_asc(b.asks))

\* A float that is a number, as an exact fraction, and float("nan").
Frac(n, d) == [nan |-> FALSE, num |-> n, den |-> d]
NaN == [nan |-> TRUE, num |-> 0, den |-> 1]

RECURSIVE GCD(_, _)
GCD(a, b) == IF b = 0 THEN a ELSE GCD(b, a % b)
Abs(n) == IF n < 0 THEN -n ELSE n

\* The number n / d (d # 0) in lowest terms, the denominator positive.
Norm(n, d) ==
    LET g == GCD(Abs(n), Abs(d))
        s == IF d < 0 THEN -1 ELSE 1
    IN  Frac(s * (n \div g), s * (d \div g))

\* float arithmetic and comparison, exact on numbers; NaN propagates through
\* the arithmetic and every comparison with NaN is False
float_add(x, y) ==
    IF x.nan \/ y.nan THEN NaN
    ELSE LET a == Norm(x.num, x.den)
             b == Norm(y.num, y.den)
         IN  Norm(a.num * b.den + b.num * a.den, a.den * b.den)
float_sub(x, y) ==
    IF x.nan \/ y.nan THEN NaN
    ELSE LET a == Norm(x.num, x.den)
             b == Norm(y.num, y.den)
         IN  Norm(a.num * b.den - b.num * a.den, a.den * b.den)
float_mul(x, y) ==
    IF x.nan \/ y.nan THEN NaN
    ELSE LET a == Norm(x.num, x.den)
             b == Norm(y.num, y.den)
         IN  Norm(a.num * b.num, a.den * b.den)
\* x / y for y # 0
float_div(x, y) ==
    IF x.nan \/ y.nan THEN NaN
    ELSE LET a == Norm(x.num, x.den)
             b == Norm(y.num, y.den)
         IN  Norm(a.num * b.den, a.den * b.num)
float_le_zero(x) == ~x.nan /\ Norm(x.num, x.den).num <= 0
float_eq(x, y) ==
    ~x.nan /\ ~y.nan /\ Norm(x.num, x.den) = Norm(y.num, y.den)

\* OrderBook.best_bid, line 74
best_bid(b) == IF b.bids # <<>> THEN Frac(b.bids[1].price, 1) ELSE NaN

\* OrderBook.best_ask, line 77
best_ask(b) == IF b.asks # <<>> THEN Frac(b.asks[1].price, 1) ELSE NaN

\* Mutant of book_mid: the best bid is taken for the mid.
book_mid_BestBid(b) == best_bid(b)

\* OrderBook.mid, lines 80-81
book_mid(b) == float_div(float_add(best_bid(b), best_ask(b)), Frac(2, 1))

\* Lists of at most n levels over the model's prices and quantities, in any
\* order: what a venue may send.
RawLevels(n) ==
    UNION {[1..k -> {Level(p, q) : p \in Prices, q \in Qtys}] : k \in 0..n}

ObIdle ==
    /\ ob_raw = OrderBook(<<>>, <<>>)
    /\ ob = OrderBook(<<>>, <<>>)
    /\ ob_before = OrderBook(<<>>, <<>>)
    /\ sorts = 0
    /\ top = None
    /\ obPc = "idle"

\* An adapter has built OrderBook(bids, asks) from a venue's reply.  The two
\* sides are sorted independently of each other, so one of them is drawn
\* with at most one level.
ObInit ==
    /\ \/ \E b \in RawLevels(MaxLevels), a \in RawLevels(1) : ob = OrderBook(b, a)
       \/ \E b \in RawLevels(1), a \in RawLevels(MaxLevels) : ob = OrderBook(b, a)
    /\ ob_raw = ob
    /\ ob_before = ob
    /\ sorts = 0
    /\ top = None
    /\ obPc = "live"

\* sort_l2(ob), applied by the adapter and again by whoever holds the book
SortL2 ==
    /\ obPc = "live"
    /\ sorts < MaxSorts
    /\ ob_before' = ob
    /\ ob' = sort_l2(ob)
    /\ sorts' = sorts + 1
    /\ top' = None
    /\ UNCHANGED <<ob_raw, obPc>>
    /\ UNCHANGED nonObVars

\* ob.best_bid()
BestBid ==
    /\ obPc = "live"
    /\ top' = Some([fn |-> "best_bid", value |-> best_bid(ob)])
    /\ UNCHANGED <<ob_raw, ob, ob_before, sorts, obPc>>
    /\ UNCHANGED nonObVars

\* ob.best_ask()
BestAsk ==
    /\ obPc = "live"
    /\ top' = Some([fn |-> "best_ask", value |-> best_ask(ob)])
    /\ UNCHANGED <<ob_raw, ob, ob_before, sorts, obPc>>
    /\ UNCHANGED nonObVars

\* ob.mid()
BookMid ==
    /\ obPc = "live"
    /\ top' = Some([fn |-> "mid", value |-> book_mid(ob)])
    /\ UNCHANGED <<ob_raw, ob, ob_before, sorts, obPc>>
    /\ UNCHANGED nonObVars

ObNext ==
    \/ SortL2
    \/ BestBid
    \/ BestAsk
    \/ BookMid

--------------------------------------------------------------------------
(* services/price_impact.py: walk_book *)

\* Sequences of at most n levels over the model's prices and quantities.
LevelSeqs(n) == RawLevels(n)

\* The sides an adapter hands over: whatever the venue sent, through sort_l2.
AskSides(n) == {sorted_asc(r) : r \in LevelSeqs(n)}
BidSides(n) == {sorted_desc(r) : r \in LevelSeqs(n)}

\* The book of the worked example: asks (100, 1), (101, 2), no bids.
ExampleBook == OrderBook(<<>>, <<Level(100, 1), Level(101, 2)>>)

RECURSIVE LCMOf(_)
LCMOf(S) ==
    IF S = {} THEN 1
    ELSE LET x == CHOOSE y \in S : TRUE
             r == LCMOf(S \ {x})
         IN  (x * r) \div GCD(x, r)

\* Common denominator of every quotient take_q / price: filled_base holds
\* the numerator of the base quantity over BaseDen.
BaseDen == LCMOf(Prices \cup {100, 101})

\* The threshold 1e-12 of the break, in units of 1e-12.
Eps == 1

Min(a, b) == IF a <= b THEN a ELSE b

\* Mutant of levels_of: the order's own side is walked.
levels_of_SameSide(b, s) == IF s = "buy" THEN b.bids ELSE b.asks

\* line 17: the opposing side of the book
levels_of(b, s) == IF s = "buy" THEN b.asks ELSE b.bids

\* line 24
level_cap_q(l) == l.price * l.qty

\* Mutant of take_q: the whole level is taken, whatever remains to fill.
take_q_WholeLevel(rem, l) == level_cap_q(l)

\* line 25
take_q(rem, l) == Min(rem, level_cap_q(l))

\* line 28: take_q / lvl.price, as a numerator over BaseDen
base_taken(take, l) == take * (BaseDen \div l.price)

\* line 34: the test of the break
loop_break(rem) == rem <= Eps

\* lines 37-42: what walk_book returns from its locals
walk_return(spent, filled) ==
    IF filled = 0
    THEN [avg_exec |-> NaN, filled_base |-> Frac(0, 1)]
    ELSE [avg_exec |-> Frac(spent * BaseDen, filled),
          filled_base |-> Frac(filled, BaseDen)]

WalkIdle ==
    /\ book = OrderBook(<<>>, <<>>)
    /\ side = "buy"
    /\ trade_volume_quote = 1
    /\ walkPc = "idle"
    /\ lvl = 0
    /\ remaining_q = 0
    /\ spent_q = 0
    /\ filled_base = 0
    /\ takes = <<>>
    /\ broke = FALSE
    /\ walkResult = None

\* A call walk_book(book, side, trade_volume_quote).  The side that is not
\* walked is read through its first level only (OrderBook.best_bid/best_ask)
\* and is drawn with at most one level.
WalkInit ==
    /\ \/ /\ side = "buy"
          /\ \E a \in AskSides(MaxLevels), b \in BidSides(1) : book = OrderBook(b, a)
          /\ trade_volume_quote \in Notionals
       \/ /\ side = "sell"
          /\ \E a \in AskSides(1), b \in BidSides(MaxLevels) : book = OrderBook(b, a)
          /\ trade_volume_quote \in Notionals
       \/ /\ side = "buy"
          /\ book = ExampleBook
          /\ trade_volume_quote \in {150, 302, 303, 400}
    /\ walkPc = "call"
    /\ lvl = 0
    /\ remaining_q = 0
    /\ spent_q = 0
    /\ filled_base = 0
    /\ takes = <<>>
    /\ broke = FALSE
    /\ walkResult = None

\* Mutant of notional_rejected: zero passes the check.
notional_rejected_OnlyNegative(v) == v < 0

\* line 14: the condition of the raise
notional_rejected(v) == v <= 0

\* lines 14-15: a notional that is not positive raises ValueError.
WalkRejects ==
    /\ walkPc = "call"
    /\ notional_rejected(trade_volume_quote)
    /\ walkPc' = "raised"
    /\ UNCHANGED nonWalkVars
    /\ UNCHANGED <<book, side, trade_volume_quote, lvl, remaining_q, spent_q,
                   filled_base, takes, broke, walkResult>>

\* lines 17-21: the locals are set and the for loop is entered.
WalkEnters ==
    /\ walkPc = "call"
    /\ ~notional_rejected(trade_volume_quote)
    /\ remaining_q' = trade_volume_quote
    /\ spent_q' = 0
    /\ filled_base' = 0
    /\ lvl' = 1
    /\ walkPc' = IF levels_of(book, side) = <<>> THEN "after_loop" ELSE "loop"
    /\ UNCHANGED nonWalkVars
    /\ UNCHANGED <<book, side, trade_volume_quote, takes, broke, walkResult>>

\* lines 23-27: an iteration whose take_q is not positive goes on to the next
\* level (`continue`).
WalkSkipsLevel ==
    /\ walkPc = "loop"
    /\ LET levels == levels_of(book, side)
           l == levels[lvl]
       IN  /\ take_q(remaining_q, l) <= 0
           /\ takes' = Append(takes, 0)
           /\ lvl' = lvl + 1
           /\ walkPc' = IF lvl = Len(levels) THEN "after_loop" ELSE "loop"
    /\ UNCHANGED nonWalkVars
    /\ UNCHANGED <<book, side, trade_volume_quote, remaining_q, spent_q,
                   filled_base, broke, walkResult>>

\* lines 23-35: an iteration that takes from the level, and breaks when the
\* remaining notional is at most 1e-12.
WalkTakesLevel ==
    /\ walkPc = "loop"
    /\ LET levels == levels_of(book, side)
           l == levels[lvl]
           t == take_q(remaining_q, l)
       IN  /\ t > 0
           /\ spent_q' = spent_q + t
           /\ filled_base' = filled_base + base_taken(t, l)
           /\ remaining_q' = remaining_q - t
           /\ takes' = Append(takes, t)
           /\ lvl' = lvl + 1
           /\ broke' = loop_break(remaining_q - t)
           /\ walkPc' = IF loop_break(remaining_q - t) \/ lvl = Len(levels)
                        THEN "after_loop" ELSE "loop"
    /\ UNCHANGED nonWalkVars
    /\ UNCHANGED <<book, side, trade_volume_quote, walkResult>>

\* lines 37-42
WalkReturns ==
    /\ walkPc = "after_loop"
    /\ walkResult' = Some(walk_return(spent_q, filled_base))
    /\ walkPc' = "returned"
    /\ UNCHANGED nonWalkVars
    /\ UNCHANGED <<book, side, trade_volume_quote, lvl, remaining_q, spent_q,
                   filled_base, takes, broke>>

WalkNext ==
    \/ WalkRejects
    \/ WalkEnters
    \/ WalkSkipsLevel
    \/ WalkTakesLevel
    \/ WalkReturns

--------------------------------------------------------------------------
(* services/price_impact.py: price_impact_pct *)

\* line 55: `mid <= 0`, False for NaN
mid_not_positive(mid) == float_le_zero(mid)

\* lines 52-57: what price_impact_pct returns from walk_book's result
price_impact_of(res, b) ==
    IF float_eq(res.filled_base, Frac(0, 1)) \/ res.avg_exec.nan
    THEN NaN
    ELSE LET mid == book_mid(b)
         IN  IF mid_not_positive(mid)
             THEN NaN
             ELSE float_mul(float_div(float_sub(res.avg_exec, mid), mid),
                            Frac(100, 1))

\* The side that is not walked is read by mid() through its first level: it
\* is empty or one level, whose price the adapters take from the venue
\* unchecked (zero and negative included).
OtherSides == {<<>>} \cup {<<Level(p, 1)>> : p \in (-MaxPrice)..MaxPrice}

\* A call price_impact_pct(book, side, trade_volume_quote), at line 51.
ImpactInit ==
    /\ \/ /\ side = "buy"
          /\ \E a \in AskSides(MaxLevels), b \in OtherSides : book = OrderBook(b, a)
       \/ /\ side = "sell"
          /\ \E a \in OtherSides, b \in BidSides(MaxLevels) : book = OrderBook(b, a)
    /\ trade_volume_quote \in Notionals
    /\ walkPc = "call"
    /\ lvl = 0
    /\ remaining_q = 0
    /\ spent_q = 0
    /\ filled_base = 0
    /\ takes = <<>>
    /\ broke = FALSE
    /\ walkResult = None
    /\ impactPc = "walking"
    /\ impact = None

\* line 51: the ValueError of walk_book is not caught
ImpactRaises ==
    /\ impactPc = "walking"
    /\ walkPc = "raised"
    /\ impactPc' = "raised"
    /\ UNCHANGED impact
    /\ UNCHANGED nonImpactVars

\* lines 51-57
ImpactReturns ==
    /\ impactPc = "walking"
    /\ walkPc = "returned"
    /\ impact' = Some(price_impact_of(walkResult[1], book))
    /\ impactPc' = "returned"
    /\ UNCHANGED nonImpactVars

ImpactNext ==
    \/ WalkNext
    \/ ImpactRaises
    \/ ImpactReturns

--------------------------------------------------------------------------
(* utils/symbol_mapper.py: UniversalSymbolMapper *)

\* Python dicts are sequences of <<key, value>> in insertion order.
dict_keys(d) == [i \in DOMAIN d |-> d[i][1]]
dict_has(d, k) == \E i \in DOMAIN d : d[i][1] = k
dict_get(d, k, default) ==
    IF dict_has(d, k) THEN d[CHOOSE i \in DOMAIN d : d[i][1] = k][2] ELSE default

\* __init__ line 45
separators == <<<<"-">>, <<"_">>, <<"/">>>>

\* __init__ lines 48-59: alias -> canonical ticker
asset_aliases == <<
    <<<<"X", "B", "T">>, <<"B", "T", "C">>>>,
    <<<<"W", "B", "T", "C">>, <<"B", "T", "C">>>>,
    <<<<"B", "C", "C">>, <<"B", "C", "H">>>>,
    <<<<"B", "C", "H", "A", "B", "C">>, <<"B", "C", "H">>>>,
    <<<<"B", "C", "H", "S", "V">>, <<"B", "S", "V">>>>,
    <<<<"B", "O", "N", "K">>, <<"B", "O", "N", "K">>>>,
    <<<<"S", "H", "I", "B">>, <<"S", "H", "I", "B">>>>,
    <<<<"D", "O", "G", "E">>, <<"D", "O", "G", "E">>>>,
    <<<<"P", "E", "P", "E">>, <<"P", "E", "P", "E">>>>,
    <<<<"W", "I", "F">>, <<"W", "I", "F">>>>>>

\* __init__ lines 62-70: stablecoin -> fiat tag
stablecoin_to_fiat == <<
    <<<<"U", "S", "D", "T">>, <<"U", "S", "D">>>>,
    <<<<"U", "S", "D", "C">>, <<"U", "S", "D">>>>,
    <<<<"B", "U", "S", "D">>, <<"U", "S", "D">>>>,
    <<<<"D", "A", "I">>, <<"U", "S", "D">>>>,
    <<<<"F", "D", "U", "S", "D">>, <<"U", "S", "D">>>>,
    <<<<"T", "U", "S", "D">>, <<"U", "S", "D">>>>,
    <<<<"P", "A", "X">>, <<"U", "S", "D">>>>>>

\* __init__ lines 73-76: the keys of stablecoin_to_fiat in insertion order,
\* then the fiat and the crypto quotes
known_quotes ==
    dict_keys(stablecoin_to_fiat) \o <<
    <<"U", "S", "D">>, <<"E", "U", "R">>, <<"G", "B", "P">>,
    <<"J", "P", "Y">>, <<"K", "R", "W">>, <<"C", "N", "Y">>,
    <<"B", "T", "C">>, <<"E", "T", "H">>, <<"B", "N", "B">>,
    <<"S", "O", "L">>, <<"A", "D", "A">>>>

\* __init__ line 79
contract_flags == <<
    <<"P", "E", "R", "P">>, <<"S", "W", "A", "P">>, <<"F", "U", "T">>,
    <<"Q", "U", "A", "R", "T", "E", "R", "L", "Y">>, <<"S", "P", "O", "T">>>>

\* __init__ line 82
exchange_noise == <<
    <<"S", "P", "O", "T", ":">>,
    <<"F", "U", "T", "U", "R", "E", "S", ":">>, <<".", "P">>,
    <<":", "U", "S", "D", "T">>, <<"^", "S", "P", "O", "T", ":">>,
    <<"^", "F", "U", "T", "U", "R", "E", "S", ":">>>>

\* __init__ lines 85-108: quote ticker -> QuoteCurrencyType (by name)
quote_mappings == <<
    <<<<"U", "S", "D">>, "USD">>, <<<<"U", "S", "D", "T">>, "USDT">>,
    <<<<"U", "S", "D", "C">>, "USDC">>, <<<<"B", "U", "S", "D">>, "BUSD">>,
    <<<<"D", "A", "I">>, "DAI">>, <<<<"T", "U", "S", "D">>, "USD">>,
    <<<<"P", "A", "X">>, "USD">>, <<<<"E", "U", "R">>, "EUR">>,
    <<<<"G", "B", "P">>, "GBP">>, <<<<"J", "P", "Y">>, "OTHER">>,
    <<<<"K", "R", "W">>, "OTHER">>, <<<<"C", "N", "Y">>, "OTHER">>,
    <<<<"B", "T", "C">>, "BTC">>, <<<<"E", "T", "H">>, "ETH">>,
    <<<<"B", "N", "B">>, "OTHER">>, <<<<"S", "O", "L">>, "OTHER">>,
    <<<<"A", "D", "A">>, "OTHER">>>>

\* __init__ lines 119-246: the dict asset_mappings (a key written twice in
\* the literal is one entry)
asset_mappings == <<
    <<<<"X", "B", "T">>, <<"B", "T", "C">>>>,
    <<<<"B", "C", "C">>, <<"B", "C", "H">>>>,
    <<<<"B", "C", "H", "A", "B", "C">>, <<"B", "C", "H">>>>,
    <<<<"B", "C", "H", "S", "V">>, <<"B", "S", "V">>>>,
    <<<<"U", "S", "D", "T">>, <<"U", "S", "D", "T">>>>,
    <<<<"U", "S", "D", "C">>, <<"U", "S", "D", "C">>>>,
    <<<<"B", "U", "S", "D">>, <<"B", "U", "S", "D">>>>,
    <<<<"D", "A", "I">>, <<"D", "A", "I">>>>,
    <<<<"D", "O", "G", "E">>, <<"D", "O", "G", "E">>>>,
    <<<<"S", "H", "I", "B">>, <<"S", "H", "I", "B">>>>,
    <<<<"B", "O", "N", "K">>, <<"B", "O", "N", "K">>>>,
    <<<<"P", "E", "P", "E">>, <<"P", "E", "P", "E">>>>,
    <<<<"W", "I", "F">>, <<"W", "I", "F">>>>,
    <<<<"U", "N", "I">>, <<"U", "N", "I">>>>,
    <<<<"A", "A", "V", "E">>, <<"A", "A", "V", "E">>>>,
    <<<<"C", "O", "M", "P">>, <<"C", "O", "M", "P">>>>,
    <<<<"M", "K", "R">>, <<"M", "K", "R">>>>,
    <<<<"C", "R", "V">>, <<"C", "R", "V">>>>,
    <<<<"S", "U", "S", "H", "I">>, <<"S", "U", "S", "H", "I">>>>,
    <<<<"Y", "F", "I">>, <<"Y", "F", "I">>>>,
    <<<<"S", "N", "X">>, <<"S", "N", "X">>>>,
    <<<<"B", "A", "L">>, <<"B", "A", "L">>>>,
    <<<<"R", "E", "N">>, <<"R", "E", "N">>>>,
    <<<<"Z", "R", "X">>, <<"Z", "R", "X">>>>,
    <<<<"B", "A", "T">>, <<"B", "A", "T">>>>,
    <<<<"L", "I", "N", "K">>, <<"L", "I", "N", "K">>>>,
    <<<<"L", "R", "C">>, <<"L", "R", "C">>>>,
    <<<<"M", "A", "N", "A">>, <<"M", "A", "N", "A">>>>,
    <<<<"E", "N", "J">>, <<"E", "N", "J">>>>,
    <<<<"S", "A", "N", "D">>, <<"S", "A", "N", "D">>>>,
    <<<<"A", "X", "S">>, <<"A", "X", "S">>>>,
    <<<<"C", "H", "Z">>, <<"C", "H", "Z">>>>,
    <<<<"H", "O", "T">>, <<"H", "O", "T">>>>,
    <<<<"V", "E", "T">>, <<"V", "E", "T">>>>,
    <<<<"V", "T", "H", "O">>, <<"V", "T", "H", "O">>>>,
    <<<<"I", "C", "X">>, <<"I", "C", "X">>>>,
    <<<<"O", "N", "G">>, <<"O", "N", "G">>>>,
    <<<<"O", "N", "T">>, <<"O", "N", "T">>>>,
    <<<<"Q", "T", "U", "M">>, <<"Q", "T", "U", "M">>>>,
    <<<<"X", "R", "P">>, <<"X", "R", "P">>>>,
    <<<<"X", "L", "M">>, <<"X", "L", "M">>>>,
    <<<<"A", "D", "A">>, <<"A", "D", "A">>>>,
    <<<<"D", "O", "T">>, <<"D", "O", "T">>>>,
    <<<<"M", "A", "T", "I", "C">>, <<"M", "A", "T", "I", "C">>>>,
    <<<<"A", "V", "A", "X">>, <<"A", "V", "A", "X">>>>,
    <<<<"A", "T", "O", "M">>, <<"A", "T", "O", "M">>>>,
    <<<<"N", "E", "A", "R">>, <<"N", "E", "A", "R">>>>,
    <<<<"F", "T", "M">>, <<"F", "T", "M">>>>,
    <<<<"A", "L", "G", "O">>, <<"A", "L", "G", "O">>>>,
    <<<<"A", "R">>, <<"A", "R">>>>,
    <<<<"F", "I", "L">>, <<"F", "I", "L">>>>,
    <<<<"I", "C", "P">>, <<"I", "C", "P">>>>,
    <<<<"A", "P", "T">>, <<"A", "P", "T">>>>,
    <<<<"S", "U", "I">>, <<"S", "U", "I">>>>,
    <<<<"S", "E", "I">>, <<"S", "E", "I">>>>,
    <<<<"T", "I", "A">>, <<"T", "I", "A">>>>,
    <<<<"I", "N", "J">>, <<"I", "N", "J">>>>,
    <<<<"O", "S", "M", "O">>, <<"O", "S", "M", "O">>>>,
    <<<<"J", "U", "P">>, <<"J", "U", "P">>>>,
    <<<<"P", "Y", "T", "H">>, <<"P", "Y", "T", "H">>>>,
    <<<<"W", "L", "D">>, <<"W", "L", "D">>>>,
    <<<<"S", "T", "R", "K">>, <<"S", "T", "R", "K">>>>,
    <<<<"B", "L", "U", "R">>, <<"B", "L", "U", "R">>>>,
    <<<<"O", "P">>, <<"O", "P">>>>,
    <<<<"A", "R", "B">>, <<"A", "R", "B">>>>,
    <<<<"M", "A", "G", "I", "C">>, <<"M", "A", "G", "I", "C">>>>,
    <<<<"I", "M", "X">>, <<"I", "M", "X">>>>,
    <<<<"S", "T", "X">>, <<"S", "T", "X">>>>,
    <<<<"C", "F", "X">>, <<"C", "F", "X">>>>,
    <<<<"F", "E", "T">>, <<"F", "E", "T">>>>,
    <<<<"A", "G", "I", "X">>, <<"A", "G", "I", "X">>>>,
    <<<<"O", "C", "E", "A", "N">>, <<"O", "C", "E", "A", "N">>>>,
    <<<<"R", "N", "D", "R">>, <<"R", "N", "D", "R">>>>,
    <<<<"T", "H", "E", "T", "A">>, <<"T", "H", "E", "T", "A">>>>,
    <<<<"T", "F", "U", "E", "L">>, <<"T", "F", "U", "E", "L">>>>,
    <<<<"H", "B", "A", "R">>, <<"H", "B", "A", "R">>>>,
    <<<<"H", "I", "V", "E">>, <<"H", "I", "V", "E">>>>,
    <<<<"H", "B", "D">>, <<"H", "B", "D">>>>,
    <<<<"S", "T", "E", "E", "M">>, <<"S", "T", "E", "E", "M">>>>,
    <<<<"S", "B", "D">>, <<"S", "B", "D">>>>,
    <<<<"B", "T", "S">>, <<"B", "T", "S">>>>,
    <<<<"E", "O", "S">>, <<"E", "O", "S">>>>,
    <<<<"T", "R", "X">>, <<"T", "R", "X">>>>,
    <<<<"B", "T", "T">>, <<"B", "T", "T">>>>,
    <<<<"W", "I", "N">>, <<"W", "I", "N">>>>,
    <<<<"A", "P", "E", "N", "F", "T">>, <<"A", "P", "E", "N", "F", "T">>>>,
    <<<<"N", "F", "T">>, <<"N", "F", "T">>>>,
    <<<<"J", "S", "T">>, <<"J", "S", "T">>>>,
    <<<<"S", "U", "N">>, <<"S", "U", "N">>>>,
    <<<<"U", "S", "D", "D">>, <<"U", "S", "D", "D">>>>,
    <<<<"T", "U", "S", "D">>, <<"T", "U", "S", "D">>>>,
    <<<<"P", "A", "X">>, <<"P", "A", "X">>>>,
    <<<<"G", "U", "S", "D">>, <<"G", "U", "S", "D">>>>,
    <<<<"F", "R", "A", "X">>, <<"F", "R", "A", "X">>>>,
    <<<<"L", "U", "S", "D">>, <<"L", "U", "S", "D">>>>,
    <<<<"S", "U", "S", "D">>, <<"S", "U", "S", "D">>>>,
    <<<<"M", "U", "S", "D">>, <<"M", "U", "S", "D">>>>,
    <<<<"R", "S", "V">>, <<"R", "S", "V">>>>,
    <<<<"U", "S", "D", "K">>, <<"U", "S", "D", "K">>>>,
    <<<<"U", "S", "D", "N">>, <<"U", "S", "D", "N">>>>,
    <<<<"U", "S", "D", "J">>, <<"U", "S", "D", "J">>>>,
    <<<<"U", "S", "D", "P">>, <<"U", "S", "D", "P">>>>,
    <<<<"F", "D", "U", "S", "D">>, <<"F", "D", "U", "S", "D">>>>>>

LowerLetters == <<
    "a", "b", "c", "d", "e", "f", "g", "h", "i", "j", "k", "l", "m", "n",
    "o", "p", "q", "r", "s", "t", "u", "v", "w", "x", "y", "z">>

UpperLetters == <<
    "A", "B", "C", "D", "E", "F", "G", "H", "I", "J", "K", "L", "M", "N",
    "O", "P", "Q", "R", "S", "T", "U", "V", "W", "X", "Y", "Z">>

DigitChars == <<"0", "1", "2", "3", "4", "5", "6", "7", "8", "9">>

\* split_base_quote line 320: the text of the ValueError
ErrCannotInfer ==
    <<"C", "a", "n", "n", "o", "t", " ", "i", "n", "f", "e", "r", " ", "q", "u", "o", "t", "e", " ", "c", "u", "r", "r", "e", "n", "c", "y", " ", "f", "r", "o", "m", " ", "s", "y", "m", "b", "o", "l", ":", " ">>

IsDigit(c) == \E i \in DOMAIN DigitChars : DigitChars[i] = c
IsUpperLetter(c) == \E i \in DOMAIN UpperLetters : UpperLetters[i] = c
DigitValue(c) == (CHOOSE i \in DOMAIN DigitChars : DigitChars[i] = c) - 1

\* str.upper()
str_upper(s) ==
    [i \in DOMAIN s |->
        IF \E k \in DOMAIN LowerLetters : LowerLetters[k] = s[i]
        THEN UpperLetters[CHOOSE k \in DOMAIN LowerLetters : LowerLetters[k] = s[i]]
        ELSE s[i]]

\* str.strip(chars): the characters of the set cs are dropped at both ends.
RECURSIVE str_lstrip(_, _)
str_lstrip(s, cs) ==
    IF s # <<>> /\ s[1] \in cs THEN str_lstrip(Tail(s), cs) ELSE s
RECURSIVE str_rstrip(_, _)
str_rstrip(s, cs) ==
    IF s # <<>> /\ s[Len(s)] \in cs
    THEN str_rstrip(SubSeq(s, 1, Len(s) - 1), cs) ELSE s
str_strip(s, cs) == str_rstrip(str_lstrip(s, cs), cs)

Whitespace == {" "}

\* str.replace(old, new) for a non-empty old: every occurrence, leftmost
\* first, occurrences not overlapping.
RECURSIVE str_replace(_, _, _)
str_replace(s, old, new) ==
    IF Len(s) < Len(old) THEN s
    ELSE IF SubSeq(s, 1, Len(old)) = old
         THEN new \o str_replace(SubSeq(s, Len(old) + 1, Len(s)), old, new)
         ELSE <<s[1]>> \o str_replace(Tail(s), old, new)

\* str.endswith
str_endswith(s, suffix) ==
    /\ Len(suffix) <= Len(s)
    /\ SubSeq(s, Len(s) - Len(suffix) + 1, Len(s)) = suffix

\* str.split(sep) for a one-character sep
RECURSIVE str_split(_, _)
str_split(s, sep) ==
    IF \A i \in DOMAIN s : s[i] # sep THEN <<s>>
    ELSE LET k == CHOOSE i \in DOMAIN s :
                    s[i] = sep /\ \A j \in 1..(i - 1) : s[j] # sep
         IN  <<SubSeq(s, 1, k - 1)>> \o str_split(SubSeq(s, k + 1, Len(s)), sep)

\* re.sub(r'-+', '-', s)
RECURSIVE collapse_dashes(_)
collapse_dashes(s) ==
    IF Len(s) < 2 THEN s
    ELSE IF s[1] = "-" /\ s[2] = "-" THEN collapse_dashes(Tail(s))
         ELSE <<s[1]>> \o collapse_dashes(Tail(s))

\* normalize_symbol lines 263-264
RECURSIVE remove_noise(_, _)
remove_noise(s, noises) ==
    IF noises = <<>> THEN s
    ELSE remove_noise(str_replace(s, Head(noises), <<>>), Tail(noises))

\* normalize_symbol lines 267-268
RECURSIVE unify_separators(_, _)
unify_separators(s, seps) ==
    IF seps = <<>> THEN s
    ELSE unify_separators(str_replace(s, Head(seps), <<"-">>), Tail(seps))

\* normalize_symbol lines 271-272
RECURSIVE remove_flags(_, _)
remove_flags(s, flags) ==
    IF flags = <<>> THEN s
    ELSE remove_flags(
             str_replace(str_replace(s, <<"-">> \o Head(flags), <<>>),
                         Head(flags), <<>>),
             Tail(flags))

\* normalize_symbol; the exchange argument is not read by the code
normalize_symbol(symbol, exch) ==
    LET s1 == str_strip(str_upper(symbol), Whitespace)
        s2 == remove_noise(s1, exchange_noise)
        s3 == unify_separators(s2, separators)
        s4 == remove_flags(s3, contract_flags)
        s5 == collapse_dashes(s4)
    IN  str_strip(s5, {"-"})

\* int(digits)
RECURSIVE int_of(_)
int_of(ds) ==
    IF ds = <<>> THEN 0
    ELSE 10 * int_of(SubSeq(ds, 1, Len(ds) - 1)) + DigitValue(ds[Len(ds)])

\* strip_multiplier: re.match(r'^(\d+)([A-Z]+)$', token)
strip_multiplier(token) ==
    LET d == Cardinality({i \in DOMAIN token :
                             \A j \in 1..i : IsDigit(token[j])})
        matches == /\ d >= 1
                   /\ d < Len(token)
                   /\ \A i \in (d + 1)..Len(token) : IsUpperLetter(token[i])
    IN  IF matches
        THEN <<SubSeq(token, d + 1, Len(token)), int_of(SubSeq(token, 1, d))>>
        ELSE <<token, 1>>

\* sorted(known_quotes, key=len, reverse=True): stable
RECURSIVE sorted_by_len_desc(_)
sorted_by_len_desc(q) ==
    IF q = <<>> THEN <<>>
    ELSE LET init == sorted_by_len_desc(SubSeq(q, 1, Len(q) - 1))
             x == q[Len(q)]
             k == Cardinality({i \in DOMAIN init : Len(init[i]) >= Len(x)})
         IN  SubSeq(init, 1, k) \o <<x>> \o SubSeq(init, k + 1, Len(init))

\* split_base_quote lines 315-320: the first quote of the scan the symbol
\* ends with, or None (the for loop's else: ValueError)
RECURSIVE scan_quotes(_, _)
scan_quotes(symbol, quotes) ==
    IF quotes = <<>> THEN None
    ELSE IF str_endswith(symbol, Head(quotes)) THEN Some(Head(quotes))
         ELSE scan_quotes(symbol, Tail(quotes))

\* split_base_quote: [ok |-> FALSE] stands for the ValueError
split_base_quote(symbol) ==
    LET parts == str_split(symbol, "-")
        found == scan_quotes(symbol, sorted_by_len_desc(known_quotes))
    IN  IF Len(parts) = 2
        THEN LET sm == strip_multiplier(parts[1])
             IN  [ok |-> TRUE, base |-> sm[1], quote |-> parts[2],
                  multiplier |-> sm[2]]
        ELSE IF found = None
             THEN [ok |-> FALSE, base |-> <<>>, quote |-> <<>>, multiplier |-> 1]
             ELSE LET quote == found[1]
                      sm == strip_multiplier(
                                SubSeq(symbol, 1, Len(symbol) - Len(quote)))
                  IN  [ok |-> TRUE, base |-> sm[1], quote |-> quote,
                       multiplier |-> sm[2]]

\* Mutant of resolve_assets: the stablecoin quote is kept as it is.
resolve_assets_KeepsStablecoin(base, quote) ==
    <<dict_get(asset_aliases, base, base),
      dict_get(asset_aliases, quote, quote), None>>

\* Mutant of resolve_assets: the stablecoin is noted but not folded into its
\* fiat currency.
resolve_assets_StablecoinNotFolded(base, quote) ==
    LET quote_alias == dict_get(asset_aliases, quote, quote)
    IN  <<dict_get(asset_aliases, base, base), quote_alias,
          IF dict_has(stablecoin_to_fiat, quote_alias)
          THEN Some(quote_alias) ELSE None>>

\* resolve_assets: <<canonical_base, canonical_quote, stablecoin_type>>
resolve_assets(base, quote) ==
    LET canonical_base == dict_get(asset_aliases, base, base)
        quote_alias == dict_get(asset_aliases, quote, quote)
    IN  IF dict_has(stablecoin_to_fiat, quote_alias)
        THEN <<canonical_base, dict_get(stablecoin_to_fiat, quote_alias, <<>>),
               Some(quote_alias)>>
        ELSE <<canonical_base, quote_alias, None>>

\* Mutant of get_quote_type: the table is not consulted.
get_quote_type_AlwaysOther(quote) == "OTHER"

\* get_quote_type: the name of the QuoteCurrencyType member
get_quote_type(quote) == dict_get(quote_mappings, quote, "OTHER")

\* map_symbol lines 391-414: the confidence, in tenths
confidence_of(canonical_base, canonical_quote, quote_type, stablecoin_type) ==
    5
    + (IF canonical_base # <<>> /\ canonical_quote # <<>> THEN 2 ELSE 0)
    + (IF dict_has(asset_mappings, canonical_base) THEN 1 ELSE 0)
    + (IF dict_has(asset_mappings, canonical_quote) THEN 1 ELSE 0)
    + (IF quote_type # "OTHER" THEN 1 ELSE 0)
    + (IF stablecoin_type # None /\ stablecoin_type # Some(<<>>) THEN 1 ELSE 0)
    - (IF canonical_base = <<>> \/ canonical_quote = <<>> THEN 3 ELSE 0)

\* Mutant of error_mapping: the cleaned symbol is reported, not the raw one.
error_mapping_Cleaned(symbol, normalized_symbol) ==
    [exchange_symbol  |-> symbol,
     universal_symbol |-> normalized_symbol,
     base_asset       |-> normalized_symbol,
     quote_asset      |-> normalized_symbol,
     quote_type       |-> "OTHER",
     confidence       |-> 1,
     metadata         |-> [error |-> ErrCannotInfer \o normalized_symbol]]

\* map_symbol lines 375-385: the mapping returned when split_base_quote
\* raised ValueError; str(e) is the message of line 320
error_mapping(symbol, normalized_symbol) ==
    [exchange_symbol  |-> symbol,
     universal_symbol |-> symbol,
     base_asset       |-> symbol,
     quote_asset      |-> symbol,
     quote_type       |-> "OTHER",
     confidence       |-> 1,
     metadata         |-> [error |-> ErrCannotInfer \o normalized_symbol]]

\* map_symbol: the SymbolMapping returned (confidence in tenths)
map_symbol(symbol, exch) ==
    LET normalized_symbol == normalize_symbol(symbol, exch)
        sp == split_base_quote(normalized_symbol)
        ra == resolve_assets(sp.base, sp.quote)
        quote_type == get_quote_type(ra[2])
    IN  IF ~sp.ok
        THEN error_mapping(symbol, normalized_symbol)
        ELSE [exchange_symbol  |-> symbol,
              universal_symbol |-> ra[1] \o <<"/">> \o ra[2],
              base_asset       |-> ra[1],
              quote_asset      |-> ra[2],
              quote_type       |-> quote_type,
              confidence       |-> confidence_of(ra[1], ra[2], quote_type, ra[3]),
              metadata         |-> [stablecoin_type |-> ra[3]]]

\* The symbols handed to map_symbol: an optional integer multiplier, a base
\* ticker (known to the tables, unknown or missing), a separator (or none)
\* and a quote ticker (a stablecoin, a fiat or crypto quote, unknown or
\* missing); and raw strings in lower case, with padding, with a venue's
\* noise or contract flag, or with no quote at all.
RECURSIVE DigitStrings(_)
DigitStrings(n) ==
    IF n = 0 THEN {<<>>}
    ELSE {<<>>} \cup
         {s \o <<d>> : s \in DigitStrings(n - 1), d \in {"0", "1", "5"}}
Multipliers ==
    DigitStrings(MaxMultiplierDigits) \cup
        {<<"1", "0", "0">>, <<"1", "0", "0", "0">>}
InputBases ==
    {<<"B", "O", "N", "K">>, <<"X", "B", "T">>, <<"D", "O", "T">>,
     <<"B", "T", "C">>, <<"U", "N", "K", "N", "O", "W", "N">>, <<>>}
InputSeparators == {<<"-">>, <<"_">>, <<"/">>, <<>>}
UsdStablecoins == {stablecoin_to_fiat[i][1] : i \in DOMAIN stablecoin_to_fiat}
InputQuotes ==
    UsdStablecoins \cup
        {<<"U", "S", "D">>, <<"E", "U", "R">>, <<"B", "T", "C">>,
         <<"A", "D", "A">>, <<"X", "Y", "Z">>, <<>>}
RawSymbols ==
    {<<"f", "o", "o">>, <<"I", "N", "V", "A", "L", "I", "D">>,
     <<"A", "-", "B", "-", "C">>, <<"-">>,
     <<"b", "t", "c", "_", "u", "s", "d", "t">>,
     <<"d", "o", "t", "u", "s", "d">>,
     <<"x", "b", "t", "/", "U", "S", "D">>,
     <<" ", "B", "T", "C", "-", "U", "S", "D", "T", " ">>,
     <<"B", "T", "C", "-", "U", "S", "D", "-", "P", "E", "R", "P">>,
     <<"B", "T", "C", "U", "S", "D", "T", ".", "P">>,
     <<"f", "o", "o", "-", "b", "a", "r", "-", "s", "w", "a", "p", "-", "x">>,
     <<"1", "I", "N", "C", "H", "-", "U", "S", "D", "T">>,
     <<"1", "0", "D", "O", "G", "E", "-", "U", "S", "D", "T">>,
     <<"1", "0", "0", "S", "H", "I", "B", "-", "U", "S", "D", "T">>}
InputSymbols ==
    {m \o b \o sep \o q :
        m \in Multipliers, b \in InputBases, sep \in InputSeparators,
        q \in InputQuotes}
    \cup RawSymbols
ExchangeNames == {"binance", "okx", "unknown"}

MapIdle ==
    /\ exchange_symbol = <<>>
    /\ exchange = "unknown"
    /\ mapPc = "idle"
    /\ mapping = None

\* A call map_symbol(exchange_symbol, exchange)
MapInit ==
    /\ exchange_symbol \in InputSymbols
    /\ exchange \in ExchangeNames
    /\ mapPc = "call"
    /\ mapping = None

MapSymbol ==
    /\ mapPc = "call"
    /\ mapping' = Some(map_symbol(exchange_symbol, exchange))
    /\ mapPc' = "returned"
    /\ UNCHANGED nonMapVars
    /\ UNCHANGED <<exchange_symbol, exchange>>

MapNext == MapSymbol

\* get_exchange_symbol lines 459-481: separator is the constant "-" and
\* quote_suffix is never read; the argument exchange is never read
get_exchange_symbol(universal_symbol, exch) ==
    IF \A i \in DOMAIN universal_symbol : universal_symbol[i] # "/"
    THEN universal_symbol
    ELSE LET k == CHOOSE i \in DOMAIN universal_symbol :
                    /\ universal_symbol[i] = "/"
                    /\ \A j \in 1..(i - 1) : universal_symbol[j] # "/"
             base == SubSeq(universal_symbol, 1, k - 1)
             quote == SubSeq(universal_symbol, k + 1, Len(universal_symbol))
             separator == <<"-">>
         IN  IF separator = <<>> THEN base \o quote
             ELSE IF separator = <<"_">> THEN base \o <<"_">> \o quote
             ELSE base \o separator \o quote

\* validate_mapping lines 495-500 (map_symbol raises nothing on a str)
validate_mapping(symbol, expected_universal, exch) ==
    map_symbol(symbol, exch).universal_symbol = expected_universal

\* The calls of the two methods: exchange symbols with an optional
\* multiplier, glued or dashed, quoted in USDT or USD, checked against the
\* universal symbols of BONK and BTC; and universal symbols (or strings
\* without "/") sent to each venue of the demo.
ApiBases == {<<"B", "O", "N", "K">>, <<"B", "T", "C">>}
ApiQuotes == {<<"U", "S", "D", "T">>, <<"U", "S", "D">>}
ValidateSymbols ==
    {m \o b \o sep \o q :
        m \in Multipliers, b \in ApiBases \cup {<<"X", "B", "T">>},
        sep \in {<<"-">>, <<>>}, q \in ApiQuotes}
UniversalSymbols == {b \o <<"/">> \o q : b \in ApiBases, q \in ApiQuotes}
TargetExchanges == {"binance", "okx", "derive", "kucoin", "bitmart"}

ApiIdle ==
    /\ api_call = [fn |-> "none"]
    /\ apiPc = "idle"
    /\ api_result = None

ApiInit ==
    /\ api_call \in
          [fn : {"validate_mapping"}, exchange_symbol : ValidateSymbols,
           expected_universal : UniversalSymbols, exchange : ExchangeNames]
          \cup
          [fn : {"get_exchange_symbol"},
           universal_symbol : UniversalSymbols \cup ValidateSymbols,
           exchange : TargetExchanges]
    /\ apiPc = "call"
    /\ api_result = None

ValidateMapping ==
    /\ apiPc = "call"
    /\ api_call.fn = "validate_mapping"
    /\ api_result' = Some(validate_mapping(api_call.exchange_symbol,
                                           api_call.expected_universal,
                                           api_call.exchange))
    /\ apiPc' = "returned"
    /\ UNCHANGED nonApiVars
    /\ UNCHANGED api_call

GetExchangeSymbol ==
    /\ apiPc = "call"
    /\ api_call.fn = "get_exchange_symbol"
    /\ api_result' = Some(get_exchange_symbol(api_call.universal_symbol,
                                              api_call.exchange))
    /\ apiPc' = "returned"
    /\ UNCHANGED nonApiVars
    /\ UNCHANGED api_call

ApiNext == ValidateMapping \/ GetExchangeSymbol

--------------------------------------------------------------------------
(* utils/http.py: HTTPClient.get_json *)

\* Mutant of while_cond: one more turn of the loop.
while_cond_OneMore(a, r) == a <= r + 1

\* line 42: the condition of the while loop
while_cond(a, r) == a <= r

\* line 62
retry_statuses == {500, 502, 503, 504}

\* The responses a request can complete with: a status, the Content-Type
\* and the body of a 2xx response (JSON or not), and the Retry-After header
\* of a 429 (absent, a number of seconds, or an HTTP date, which float()
\* rejects); and the errors it can complete with instead.
OtherStatuses == {301, 404, 501}
Responses ==
    [status : {200, 204}, ctype : {"application/json", "text/html"},
     body : {"json", "not_json"}]
    \cup [status : {429}, retry_after : {"absent", "seconds", "date"}]
    \cup [status : retry_statuses \cup OtherStatuses]
RequestErrors == {"ClientError", "TimeoutError"}

HttpIdle ==
    /\ retries = 0
    /\ attempt = 0
    /\ last_err = None
    /\ sent = <<>>
    /\ httpPc = "idle"
    /\ httpResult = None

\* A call get_json(url, retries=retries), at the while of line 42
\* (lines 38-40 done: the session exists, attempt = 0, last_err = None).
HttpInit ==
    /\ retries \in 0..MaxRetries
    /\ attempt = 0
    /\ last_err = None
    /\ sent = <<>>
    /\ httpPc = "while"
    /\ httpResult = None

\* lines 44-51: the response is a 429; the delay is read, slept, and the
\* loop continues; float() of a Retry-After that is no number raises
\* ValueError, which line 69 does not catch.
HttpRateLimited ==
    /\ httpPc = "while"
    /\ while_cond(attempt, retries)
    /\ \E resp \in Responses :
          /\ resp.status = 429
          /\ sent' = Append(sent, resp)
          /\ IF resp.retry_after = "date"
             THEN /\ httpPc' = "raised"
                  /\ httpResult' = Some([kind |-> "raise", error |-> "ValueError"])
                  /\ UNCHANGED attempt
             ELSE /\ attempt' = attempt + 1
                  /\ UNCHANGED <<httpPc, httpResult>>
    /\ UNCHANGED <<retries, last_err>>
    /\ UNCHANGED nonHttpVars

\* lines 44-60: the response is a 2xx; its body is returned when it parses
\* as JSON (resp.json() under a JSON Content-Type, json.loads otherwise),
\* and an error that line 69 does not catch is raised when it does not.
HttpSuccess ==
    /\ httpPc = "while"
    /\ while_cond(attempt, retries)
    /\ \E resp \in Responses :
          /\ 200 <= resp.status /\ resp.status < 300
          /\ sent' = Append(sent, resp)
          /\ IF resp.body = "json"
             THEN /\ httpPc' = "returned"
                  /\ httpResult' = Some([kind |-> "return"])
             ELSE /\ httpPc' = "raised"
                  /\ httpResult' =
                        Some([kind |-> "raise",
                              error |-> IF resp.ctype = "application/json"
                                        THEN "JSONDecodeError"
                                        ELSE "Expected JSON"])
    /\ UNCHANGED <<retries, attempt, last_err>>
    /\ UNCHANGED nonHttpVars

\* lines 44-65: the response is a 500, 502, 503 or 504; sleep and continue.
HttpServerError ==
    /\ httpPc = "while"
    /\ while_cond(attempt, retries)
    /\ \E resp \in Responses :
          /\ resp.status \in retry_statuses
          /\ sent' = Append(sent, resp)
    /\ attempt' = attempt + 1
    /\ UNCHANGED <<retries, last_err, httpPc, httpResult>>
    /\ UNCHANGED nonHttpVars

\* lines 44-68: any other status raises RuntimeError("HTTP <status> ...").
HttpOtherStatus ==
    /\ httpPc = "while"
    /\ while_cond(attempt, retries)
    /\ \E resp \in Responses :
          /\ resp.status # 429
          /\ ~(200 <= resp.status /\ resp.status < 300)
          /\ resp.status \notin retry_statuses
          /\ sent' = Append(sent, resp)
          /\ httpResult' = Some([kind |-> "raise", error |-> "HTTP status"])
    /\ httpPc' = "raised"
    /\ UNCHANGED <<retries, attempt, last_err>>
    /\ UNCHANGED nonHttpVars

\* lines 44, 69-74: the request ends in a client or timeout error; it is
\* kept in last_err, and the loop breaks when no attempt is left.
HttpRequestFails ==
    /\ httpPc = "while"
    /\ while_cond(attempt, retries)
    /\ \E e \in RequestErrors :
          /\ sent' = Append(sent, [error |-> e])
          /\ last_err' = Some(e)
    /\ IF attempt >= retries
       THEN httpPc' = "after_loop" /\ UNCHANGED attempt
       ELSE attempt' = attempt + 1 /\ UNCHANGED httpPc
    /\ UNCHANGED <<retries, httpResult>>
    /\ UNCHANGED nonHttpVars

\* lines 42, 76: the loop has ended, by its condition or by the break.
HttpGivesUp ==
    /\ \/ httpPc = "while" /\ ~while_cond(attempt, retries)
       \/ httpPc = "after_loop"
    /\ httpPc' = "raised"
    /\ httpResult' = Some([kind |-> "raise", error |-> "Request failed",
                           attempts |-> retries + 1, last_err |-> last_err])
    /\ UNCHANGED <<retries, attempt, last_err, sent>>
    /\ UNCHANGED nonHttpVars

HttpNext ==
    \/ HttpRateLimited
    \/ HttpSuccess
    \/ HttpServerError
    \/ HttpOtherStatus
    \/ HttpRequestFails
    \/ HttpGivesUp

--------------------------------------------------------------------------
(* services/trading.py: UnifiedTradingService.place_order *)

\* Mutant of trading_exchanges: every exchange is kept.
trading_exchanges_All(exs) == exs

\* __init__ line 31
trading_exchanges(exs) ==
    LET supports(ex) == ex.supports_trading IN SelectSeq(exs, supports)

\* line 48: next((ex for ex in self.trading_exchanges if ex.name == venue), None)
target_exchange(exs, v) ==
    LET named(ex) == ex.name = v
        found == SelectSeq(trading_exchanges(exs), named)
    IN  IF found = <<>> THEN None ELSE Some(found[1])

\* TradingResult (latency_ms left out)
TradingResult(success, v, error) ==
    [success |-> success, venue |-> v, error |-> error]

\* the exchanges of a service: distinct names, each trading-capable or not
ExchangeLists ==
    {l \in UNION {[1..k -> [name : 1..MaxExchanges, supports_trading : BOOLEAN]] :
                     k \in 0..MaxExchanges} :
        \A i, j \in DOMAIN l : i # j => l[i].name # l[j].name}

TradeIdle ==
    /\ svc_exchanges = <<>>
    /\ venue = None
    /\ contacted = <<>>
    /\ tradePc = "idle"
    /\ tradeResult = None

\* A call place_order(request, venue) on a service built from svc_exchanges
TradeInit ==
    /\ svc_exchanges \in ExchangeLists
    /\ venue \in {None} \cup {Some(n) : n \in 1..MaxExchanges}
    /\ contacted = <<>>
    /\ tradePc = "call"
    /\ tradeResult = None

\* lines 46-56: a venue is named and no trading exchange has that name
PlaceOnUnknownVenue ==
    /\ tradePc = "call"
    /\ venue # None
    /\ target_exchange(svc_exchanges, venue[1]) = None
    /\ tradeResult' = Some(TradingResult(FALSE, venue[1], "not found"))
    /\ tradePc' = "returned"
    /\ UNCHANGED <<svc_exchanges, venue, contacted>>
    /\ UNCHANGED nonTradeVars

\* lines 46-74: a venue is named; its place_order returns or raises
PlaceOnVenue ==
    /\ tradePc = "call"
    /\ venue # None
    /\ target_exchange(svc_exchanges, venue[1]) # None
    /\ LET ex == target_exchange(svc_exchanges, venue[1])[1]
       IN  \E outcome \in {"returned", "raised"} :
              /\ contacted' = Append(contacted,
                                     [name |-> ex.name, outcome |-> outcome])
              /\ tradeResult' =
                    Some(IF outcome = "returned"
                         THEN TradingResult(TRUE, ex.name, None)
                         ELSE TradingResult(FALSE, ex.name, Some("str(e)")))
    /\ tradePc' = "returned"
    /\ UNCHANGED <<svc_exchanges, venue>>
    /\ UNCHANGED nonTradeVars

\* lines 77-86: the place_order of the next trading exchange returns
VenueAccepts ==
    /\ tradePc = "call"
    /\ venue = None
    /\ Len(contacted) < Len(trading_exchanges(svc_exchanges))
    /\ LET ex == trading_exchanges(svc_exchanges)[Len(contacted) + 1]
       IN  /\ contacted' = Append(contacted,
                                  [name |-> ex.name, outcome |-> "returned"])
           /\ tradeResult' = Some(TradingResult(TRUE, ex.name, None))
    /\ tradePc' = "returned"
    /\ UNCHANGED <<svc_exchanges, venue>>
    /\ UNCHANGED nonTradeVars

\* lines 77-79, 87-88: the place_order of the next trading exchange raises
\* an Exception, and the loop goes on
VenueRejects ==
    /\ tradePc = "call"
    /\ venue = None
    /\ Len(contacted) < Len(trading_exchanges(svc_exchanges))
    /\ LET ex == trading_exchanges(svc_exchanges)[Len(contacted) + 1]
       IN  contacted' = Append(contacted,
                               [name |-> ex.name, outcome |-> "raised"])
    /\ UNCHANGED <<svc_exchanges, venue, tradePc, tradeResult>>
    /\ UNCHANGED nonTradeVars

\* lines 77, 90-97: the loop is exhausted
AllVenuesFailed ==
    /\ tradePc = "call"
    /\ venue = None
    /\ Len(contacted) = Len(trading_exchanges(svc_exchanges))
    /\ tradeResult' = Some(TradingResult(FALSE, "all",
                                         Some("All trading venues failed")))
    /\ tradePc' = "returned"
    /\ UNCHANGED <<svc_exchanges, venue, contacted>>
    /\ UNCHANGED nonTradeVars

TradeNext ==
    \/ PlaceOnUnknownVenue
    \/ PlaceOnVenue
    \/ VenueAccepts
    \/ VenueRejects
    \/ AllVenuesFailed

--------------------------------------------------------------------------
(* services/historical_data.py: LocalFileStorage, HistoricalDataService,  *)
(* DataCaptureManager                                                      *)

SessionIds == {"a", "b"}

\* LocalFileStorage.close, lines 117-120: the handle is closed and kept
storage_close(h) == IF h = "none" THEN "none" ELSE "closed"

\* LocalFileStorage.store_snapshot, lines 72-92, with _rotate_file (lines
\* 106-115): a new file is opened when there is none yet or the current one
\* is full (max_snapshots_per_file, 1000 in the code); the write to a closed
\* handle raises ValueError, which line 90 turns into False.
store_snapshot(h, n) ==
    LET rotate == h = "none" \/ n >= MaxSnapshotsPerFile
        h1 == IF rotate THEN "open" ELSE h
        n1 == IF rotate THEN 0 ELSE n
    IN  IF h1 = "closed"
        THEN [ok |-> FALSE, file_handle |-> h1, snapshots_in_file |-> n1]
        ELSE [ok |-> TRUE, file_handle |-> h1, snapshots_in_file |-> n1 + 1]

\* LocalFileStorage.store_batch, lines 94-104, for a batch of k snapshots
RECURSIVE store_batch(_, _, _)
store_batch(h, n, k) ==
    IF k = 0 THEN [ok |-> TRUE, file_handle |-> h, snapshots_in_file |-> n]
    ELSE LET r == store_snapshot(h, n)
         IN  IF ~r.ok THEN r
             ELSE store_batch(r.file_handle, r.snapshots_in_file, k - 1)

\* HistoricalDataService.stop_capture (lines 349-353) on service s
stop_capture(ss, s) == [ss EXCEPT ![s].running = FALSE]

CapIdle ==
    /\ services = [sid \in SessionIds |-> 0]
    /\ svcs = <<>>
    /\ file_handle = "none"
    /\ snapshots_in_file = 0
    /\ capPc = "idle"

\* DataCaptureManager(LocalFileStorage(...)), lines 65-70 and 365-367
CapInit ==
    /\ services = [sid \in SessionIds |-> 0]
    /\ svcs = <<>>
    /\ file_handle = "none"
    /\ snapshots_in_file = 0
    /\ capPc = "live"

\* start_capture_session, lines 369-386: a session of that id is stopped
\* first (lines 388-393); the new service is registered and its task
\* created. No await of these lines suspends.
StartCaptureSession(sid) ==
    /\ capPc = "live"
    /\ Len(svcs) < MaxServices
    /\ LET old == services[sid]
           stopped == IF old # 0 THEN stop_capture(svcs, old) ELSE svcs
       IN  /\ svcs' = Append(stopped, [running |-> FALSE, pc |-> "created",
                                       stored |-> "none"])
           /\ file_handle' =
                 IF old # 0 THEN storage_close(file_handle) ELSE file_handle
    /\ services' = [services EXCEPT ![sid] = Len(svcs) + 1]
    /\ UNCHANGED <<snapshots_in_file, capPc>>
    /\ UNCHANGED nonCapVars

\* stop_capture_session, lines 388-393, for a session that exists
StopCaptureSession(sid) ==
    /\ capPc = "live"
    /\ services[sid] # 0
    /\ svcs' = stop_capture(svcs, services[sid])
    /\ file_handle' = storage_close(file_handle)
    /\ services' = [services EXCEPT ![sid] = 0]
    /\ UNCHANGED <<snapshots_in_file, capPc>>
    /\ UNCHANGED nonCapVars

\* start_capture, lines 289-310: the task starts, sets running, passes the
\* while and waits for the first order book
CaptureStarts(s) ==
    /\ capPc = "live"
    /\ s \in DOMAIN svcs
    /\ svcs[s].pc = "created"
    /\ svcs' = [svcs EXCEPT ![s].running = TRUE, ![s].pc = "capturing"]
    /\ UNCHANGED <<services, file_handle, snapshots_in_file, capPc>>
    /\ UNCHANGED nonCapVars

\* start_capture, lines 306-340: the order books have arrived (k snapshots
\* were built; 0 when every get_l2_orderbook raised), a batch that is not
\* empty is stored, and the task sleeps until the next interval
CaptureStores(s) ==
    /\ capPc = "live"
    /\ s \in DOMAIN svcs
    /\ svcs[s].pc = "capturing"
    /\ \E k \in 0..1 :
          LET r == store_batch(file_handle, snapshots_in_file, k)
          IN  /\ file_handle' = r.file_handle
              /\ snapshots_in_file' = r.snapshots_in_file
              /\ svcs' = [svcs EXCEPT
                            ![s].pc = "sleeping",
                            ![s].stored = IF k = 0 THEN @
                                          ELSE IF r.ok THEN "ok" ELSE "failed"]
    /\ UNCHANGED <<services, capPc>>
    /\ UNCHANGED nonCapVars

\* start_capture, lines 296-310 and 346-353: after the sleep the while is
\* tested again; when running is False the finally clause stops the
\* capture, which closes the storage
CaptureWakes(s) ==
    /\ capPc = "live"
    /\ s \in DOMAIN svcs
    /\ svcs[s].pc = "sleeping"
    /\ IF svcs[s].running
       THEN /\ svcs' = [svcs EXCEPT ![s].pc = "capturing"]
            /\ UNCHANGED file_handle
       ELSE /\ svcs' = [svcs EXCEPT ![s].pc = "done"]
            /\ file_handle' = storage_close(file_handle)
    /\ UNCHANGED <<services, snapshots_in_file, capPc>>
    /\ UNCHANGED nonCapVars

CapNext ==
    \/ \E sid \in SessionIds : StartCaptureSession(sid)
    \/ \E sid \in SessionIds : StopCaptureSession(sid)
    \/ \E s \in 1..MaxServices : CaptureStarts(s)
    \/ \E s \in 1..MaxServices : CaptureStores(s)
    \/ \E s \in 1..MaxServices : CaptureWakes(s)

--------------------------------------------------------------------------
(* services/historical_data.py: S3ParquetStorage *)

\* _flush_buffer, lines 175-229: nothing to do for an empty buffer; else
\* the rows are written to the file named after the second of the clock
\* (lines 210-211; a file of that name is replaced), and the buffer is
\* cleared when the write raised nothing (written), kept when it raised.
flush_buffer(buf, fs, now, written) ==
    IF buf = <<>> THEN [ok |-> TRUE, buffer |-> buf, files |-> fs]
    ELSE IF written
         THEN [ok |-> TRUE, buffer |-> <<>>,
               files |-> [fs EXCEPT ![now] = buf]]
         ELSE [ok |-> FALSE, buffer |-> buf, files |-> fs]

\* store_snapshot lines 151-156, store_batch lines 164-170: the snapshots
\* are appended, and the buffer is flushed when it holds max_buffer_size
\* (100 in the code) or more
store_after_append(buf, fs, now, written) ==
    IF Len(buf) >= MaxBufferSize
    THEN flush_buffer(buf, fs, now, written)
    ELSE [ok |-> TRUE, buffer |-> buf, files |-> fs]

S3Idle ==
    /\ buffer = <<>>
    /\ accepted = 0
    /\ files = <<>>
    /\ clock = 0
    /\ s3Pc = "idle"
    /\ s3_last = None

\* S3ParquetStorage(), lines 125-146
S3Init ==
    /\ buffer = <<>>
    /\ accepted = 0
    /\ files = [sec \in 0..MaxClock |-> <<>>]
    /\ clock = 0
    /\ s3Pc = "open"
    /\ s3_last = None

\* store_snapshot, lines 148-159; the write of a flush succeeds or raises
S3StoreSnapshot ==
    /\ s3Pc = "open"
    /\ accepted < MaxSnapshots
    /\ \E written \in BOOLEAN :
          LET r == store_after_append(Append(buffer, accepted + 1), files,
                                      clock, written)
          IN  /\ buffer' = r.buffer
              /\ files' = r.files
              /\ s3_last' = Some([fn |-> "store_snapshot", ok |-> r.ok])
    /\ accepted' = accepted + 1
    /\ UNCHANGED <<clock, s3Pc>>
    /\ UNCHANGED nonS3Vars

\* store_batch, lines 161-173, for a batch of k snapshots
S3StoreBatch ==
    /\ s3Pc = "open"
    /\ \E k \in 0..(MaxSnapshots - accepted), written \in BOOLEAN :
          LET batch == [i \in 1..k |-> accepted + i]
              r == store_after_append(buffer \o batch, files, clock, written)
          IN  /\ buffer' = r.buffer
              /\ files' = r.files
              /\ s3_last' = Some([fn |-> "store_batch", ok |-> r.ok])
              /\ accepted' = accepted + k
    /\ UNCHANGED <<clock, s3Pc>>
    /\ UNCHANGED nonS3Vars

\* close, lines 265-268
S3Close ==
    /\ s3Pc = "open"
    /\ \E written \in BOOLEAN :
          LET r == flush_buffer(buffer, files, clock, written)
          IN  /\ buffer' = r.buffer
              /\ files' = r.files
    /\ s3_last' = Some([fn |-> "close", ok |-> TRUE])
    /\ s3Pc' = "closed"
    /\ UNCHANGED <<accepted, clock>>
    /\ UNCHANGED nonS3Vars

\* a second passes
ClockTicks ==
    /\ s3Pc = "open"
    /\ clock < MaxClock
    /\ clock' = clock + 1
    /\ UNCHANGED <<buffer, accepted, files, s3Pc, s3_last>>
    /\ UNCHANGED nonS3Vars

S3Next ==
    \/ S3StoreSnapshot
    \/ S3StoreBatch
    \/ S3Close
    \/ ClockTicks

--------------------------------------------------------------------------
(* models.py: Pair.parse *)

\* line 37: the quote suffixes tried when there is no separator, in order
pair_suffixes ==
    <<<<"U", "S", "D", "T">>, <<"U", "S", "D">>, <<"U", "S", "D", "C">>,
      <<"B", "T", "C">>, <<"E", "T", "H">>, <<"E", "U", "R">>>>

\* line 32: s.strip().upper().replace("/", "-").replace("_", "-")
pair_clean(s) ==
    str_replace(str_replace(str_upper(str_strip(s, Whitespace)),
                            <<"/">>, <<"-">>),
                <<"_">>, <<"-">>)

\* lines 37-40: the first suffix q with s.endswith(q) and len(s) > len(q),
\* or None (ValueError)
RECURSIVE pair_scan(_, _)
pair_scan(s, suffixes) ==
    IF suffixes = <<>> THEN None
    ELSE IF str_endswith(s, Head(suffixes)) /\ Len(s) > Len(Head(suffixes))
         THEN Some(Head(suffixes))
         ELSE pair_scan(s, Tail(suffixes))

\* Pair.parse: [ok |-> FALSE] stands for the ValueError of line 40
Pair_parse(raw) ==
    LET s == pair_clean(raw)
        dashes == {i \in DOMAIN s : s[i] = "-"}
        found == pair_scan(s, pair_suffixes)
    IN  IF dashes # {}
        THEN LET k == CHOOSE i \in dashes : \A j \in dashes : i <= j
             IN  [ok |-> TRUE, base |-> SubSeq(s, 1, k - 1),
                  quote |-> SubSeq(s, k + 1, Len(s))]
        ELSE IF found = None
             THEN [ok |-> FALSE, base |-> <<>>, quote |-> <<>>]
             ELSE [ok |-> TRUE,
                   base |-> SubSeq(s, 1, Len(s) - Len(found[1])),
                   quote |-> found[1]]

\* The strings handed to Pair.parse: a base (or none), a separator (or none)
\* and a quote (or none), in either case, with or without padding.
PairBases ==
    {<<>>, <<"b", "t", "c">>, <<"B", "T", "C">>, <<"x">>,
     <<"1", "0", "0", "0", "B", "O", "N", "K">>}
PairQuotes ==
    {<<>>, <<"u", "s", "d", "t">>, <<"U", "S", "D", "T">>, <<"U", "S", "D">>,
     <<"E", "U", "R">>, <<"x", "y", "z">>, <<"b", "-", "c">>}
PairPaddings == {<<>>, <<" ">>}
PairInputs ==
    {pad \o b \o sep \o q \o pad :
        pad \in PairPaddings, b \in PairBases, sep \in InputSeparators,
        q \in PairQuotes}

\* A call Pair.parse(s)
PairInit ==
    /\ pair_s \in PairInputs
    /\ pairPc = "call"
    /\ pair = None

\* lines 32-39: a Pair is returned
PairReturns ==
    /\ pairPc = "call"
    /\ Pair_parse(pair_s).ok
    /\ pair' = Some([base |-> Pair_parse(pair_s).base,
                     quote |-> Pair_parse(pair_s).quote])
    /\ pairPc' = "returned"
    /\ UNCHANGED pair_s
    /\ UNCHANGED nonPairVars

\* line 40: ValueError
PairRaises ==
    /\ pairPc = "call"
    /\ ~Pair_parse(pair_s).ok
    /\ pairPc' = "raised"
    /\ UNCHANGED <<pair_s, pair>>
    /\ UNCHANGED nonPairVars

PairNext ==
    \/ PairReturns
    \/ PairRaises

--------------------------------------------------------------------------
(* Specifications *)

AggIdle ==
    /\ exchanges = <<>>
    /\ responds = <<>>
    /\ task = <<>>
    /\ taskQuote = <<>>
    /\ completed = <<>>
    /\ consumed = 0
    /\ results = <<>>
    /\ aggPc = "idle"
    /\ aggResult = None

ImpactIdle ==
    /\ impactPc = "idle"
    /\ impact = None

PairIdle ==
    /\ pair_s = <<>>
    /\ pairPc = "idle"
    /\ pair = None

\* none of the components added after the first six is in use
ExtIdle == ApiIdle /\ HttpIdle /\ TradeIdle /\ CapIdle /\ S3Idle

\* none of the first six components is in use
CoreIdle ==
    AggIdle /\ WalkIdle /\ MapIdle /\ ObIdle /\ ImpactIdle /\ PairIdle

WalkSpecInit ==
    WalkInit /\ AggIdle /\ MapIdle /\ ObIdle /\ ImpactIdle /\ PairIdle
    /\ ExtIdle

WalkSpec == WalkSpecInit /\ [][WalkNext]_vars

Init ==
    AggInit /\ WalkIdle /\ MapIdle /\ ObIdle /\ ImpactIdle /\ PairIdle
    /\ ExtIdle

Spec == Init /\ [][AggNext]_vars

MapSpecInit ==
    MapInit /\ AggIdle /\ WalkIdle /\ ObIdle /\ ImpactIdle /\ PairIdle
    /\ ExtIdle

ImpactSpecInit ==
    ImpactInit /\ AggIdle /\ MapIdle /\ ObIdle /\ PairIdle /\ ExtIdle

ImpactSpec == ImpactSpecInit /\ [][ImpactNext]_vars

PairSpecInit ==
    PairInit /\ AggIdle /\ WalkIdle /\ MapIdle /\ ObIdle /\ ImpactIdle
    /\ ExtIdle

PairSpec == PairSpecInit /\ [][PairNext]_vars

ObSpecInit ==
    ObInit /\ AggIdle /\ WalkIdle /\ MapIdle /\ ImpactIdle /\ PairIdle
    /\ ExtIdle

ObSpec == ObSpecInit /\ [][ObNext]_vars

MapSpec == MapSpecInit /\ [][MapNext]_vars

ApiSpecInit ==
    ApiInit /\ CoreIdle /\ HttpIdle /\ TradeIdle /\ CapIdle /\ S3Idle

HttpSpecInit ==
    HttpInit /\ CoreIdle /\ ApiIdle /\ TradeIdle /\ CapIdle /\ S3Idle

TradeSpecInit ==
    TradeInit /\ CoreIdle /\ ApiIdle /\ HttpIdle /\ CapIdle /\ S3Idle

CapSpecInit ==
    CapInit /\ CoreIdle /\ ApiIdle /\ HttpIdle /\ TradeIdle /\ S3Idle

S3SpecInit ==
    S3Init /\ CoreIdle /\ ApiIdle /\ HttpIdle /\ TradeIdle /\ CapIdle

S3Spec == S3SpecInit /\ [][S3Next]_vars

CapSpec == CapSpecInit /\ [][CapNext]_vars

TradeSpec == TradeSpecInit /\ [][TradeNext]_vars

HttpSpec == HttpSpecInit /\ [][HttpNext]_vars

\* Every request completes, with a response or with an error, every sleep
\* ends, and the event loop resumes the coroutine.
HttpLiveSpec == HttpSpec /\ WF_vars(HttpNext)

ApiSpec == ApiSpecInit /\ [][ApiNext]_vars

\* The event loop runs every runnable coroutine, and a venue call that
\* responds at all completes (responds[v] is the guard of both outcomes).
LiveSpec ==
    /\ Spec
    /\ WF_vars(CreateTasks)
    /\ \A v \in Venues : WF_vars(VenueReturns(v) \/ VenueRaises(v))
    /\ WF_vars(AwaitResult)
    /\ WF_vars(AwaitException)
    /\ WF_vars(GatherReturn)

--------------------------------------------------------------------------
(* Properties of the symbol mapper *)

MapReturned == mapPc = "returned"
BONK == <<"B", "O", "N", "K">>
\* the tickers the claim names: USDT, USDC, BUSD, DAI, TUSD, PAX, FDUSD, and USD
C1_Quotes ==
    {<<"U", "S", "D", "T">>, <<"U", "S", "D", "C">>, <<"B", "U", "S", "D">>,
     <<"D", "A", "I">>, <<"T", "U", "S", "D">>, <<"P", "A", "X">>,
     <<"F", "D", "U", "S", "D">>, <<"U", "S", "D">>}
C1_Symbols == {m \o BONK \o <<"-">> \o q : m \in Multipliers, q \in C1_Quotes}

Unparseable(symbol, exch) ==
    LET s == normalize_symbol(symbol, exch)
    IN  /\ Len(str_split(s, "-")) # 2
        /\ \A i \in DOMAIN known_quotes : ~str_endswith(s, known_quotes[i])

\* C11: map_symbol never raises: a call always returns a mapping; and when
\* the cleaned symbol has no single separator and ends with no known quote
\* token, the mapping's universal symbol is the raw input symbol, its
\* confidence is 0.1 and its metadata carries an error note.
C11_UnparseableGivesLowConfidence ==
    /\ mapPc \in {"call", "returned"}
    /\ MapReturned =>
         /\ mapping # None
         /\ Unparseable(exchange_symbol, exchange) =>
              /\ mapping[1].universal_symbol = exchange_symbol
              /\ mapping[1].confidence = 1
              /\ DOMAIN mapping[1].metadata = {"error"}
              /\ mapping[1].metadata.error # <<>>

\* C11 witness: the raw symbol "foo", whose cleaned form is "FOO", came back
\* as its own universal symbol with confidence 0.1 and an error note.
C11_Witness ==
    /\ MapReturned
    /\ exchange_symbol = <<"f", "o", "o">>
    /\ normalize_symbol(exchange_symbol, exchange) = <<"F", "O", "O">>
    /\ Unparseable(exchange_symbol, exchange)
    /\ mapping[1].universal_symbol = <<"f", "o", "o">>
    /\ mapping[1].confidence = 1
    /\ mapping[1].metadata.error = ErrCannotInfer \o <<"F", "O", "O">>

\* the bases and quotes of the model's inputs that the mapper's tables hold
KnownBases ==
    {b \in InputBases :
        dict_has(asset_mappings, b) \/ dict_has(asset_aliases, b)}
KnownQuotes ==
    {q \in InputQuotes : \E i \in DOMAIN known_quotes : known_quotes[i] = q}

\* C17 as stated: for a base and a quote the mapper knows, the glued symbol
\* BASE+QUOTE and the forms BASE-QUOTE, BASE_QUOTE, BASE/QUOTE, in any
\* letter case, all get the universal symbol of BASE-QUOTE.
C17_GluedEqualsSeparated ==
    MapReturned =>
        \A b \in KnownBases, q \in KnownQuotes, sep \in InputSeparators :
            str_upper(exchange_symbol) = b \o sep \o q =>
                mapping[1].universal_symbol =
                    map_symbol(b \o <<"-">> \o q, exchange).universal_symbol

\* C18: the confidence of every returned mapping lies in [0, 1] (0 to 10
\* tenths), for every combination of bonuses and penalty that occurs: the
\* stablecoin bonus and the known-quote bonus never come together, because
\* a stablecoin's canonical quote is its fiat currency, which is no key of
\* the asset table.
C18_ConfidenceWithinUnitInterval ==
    MapReturned =>
        /\ mapping[1].confidence >= 0
        /\ mapping[1].confidence <= 10
        /\ "stablecoin_type" \in DOMAIN mapping[1].metadata =>
             (mapping[1].metadata.stablecoin_type # None =>
                 ~dict_has(asset_mappings, mapping[1].quote_asset))

\* C18 witness: "BONK-USDT", parsed, with a known base, a known quote class
\* and a folded stablecoin, has confidence 1.0, the largest there is.
C18_Witness ==
    /\ MapReturned
    /\ exchange_symbol = BONK \o <<"-", "U", "S", "D", "T">>
    /\ dict_has(asset_mappings, mapping[1].base_asset)
    /\ mapping[1].quote_type # "OTHER"
    /\ mapping[1].metadata.stablecoin_type # None
    /\ mapping[1].confidence = 10

\* every ticker that occurs in a table of the mapper
TableTokens ==
    {asset_mappings[i][1] : i \in DOMAIN asset_mappings}
    \cup {asset_mappings[i][2] : i \in DOMAIN asset_mappings}
    \cup {asset_aliases[i][1] : i \in DOMAIN asset_aliases}
    \cup {asset_aliases[i][2] : i \in DOMAIN asset_aliases}
    \cup {stablecoin_to_fiat[i][1] : i \in DOMAIN stablecoin_to_fiat}
    \cup {stablecoin_to_fiat[i][2] : i \in DOMAIN stablecoin_to_fiat}
    \cup {known_quotes[i] : i \in DOMAIN known_quotes}
    \cup {quote_mappings[i][1] : i \in DOMAIN quote_mappings}

\* C19 as stated: a mapping of BASE-QUOTE whose base and quote are both
\* known tickers (BTC-USDT) has a strictly higher confidence than every
\* mapping whose base is unknown or missing (UNKNOWN-USDT).
C19_KnownBeatsUnknownBase ==
    MapReturned =>
        \A b \in InputBases \cap TableTokens, q \in InputQuotes \cap TableTokens :
            exchange_symbol = b \o <<"-">> \o q =>
                \A u \in InputBases \ TableTokens, q2 \in InputQuotes :
                    mapping[1].confidence >
                        map_symbol(u \o <<"-">> \o q2, exchange).confidence

\* C20 as stated: for a base with a leading integer multiplier
\* ("1000BONK-USDT") the multiplier is removed from the base asset, is absent
\* from the universal symbol, and its value is recorded in the metadata.
C20_MultiplierRecorded ==
    MapReturned =>
        \A m \in Multipliers \ {<<>>}, q \in C1_Quotes :
            exchange_symbol = m \o BONK \o <<"-">> \o q =>
                /\ mapping[1].base_asset = BONK
                /\ mapping[1].universal_symbol = BONK \o <<"/", "U", "S", "D">>
                /\ "multiplier" \in DOMAIN mapping[1].metadata
                /\ mapping[1].metadata.multiplier = int_of(m)

--------------------------------------------------------------------------
(* Properties of the order book *)

SamePriceTwice(levels) ==
    \E i, j \in DOMAIN levels : i < j /\ levels[i].price = levels[j].price
StrictlyDescending(levels) ==
    \A i \in 1..(Len(levels) - 1) : levels[i].price > levels[i + 1].price
StrictlyAscending(levels) ==
    \A i \in 1..(Len(levels) - 1) : levels[i].price < levels[i + 1].price
Descending(levels) ==
    \A i \in 1..(Len(levels) - 1) : levels[i].price >= levels[i + 1].price
Ascending(levels) ==
    \A i \in 1..(Len(levels) - 1) : levels[i].price <= levels[i + 1].price
\* the same levels, each as many times
SameLevels(x, y) ==
    /\ Len(x) = Len(y)
    /\ \A l \in {x[i] : i \in DOMAIN x} \cup {y[i] : i \in DOMAIN y} :
         Cardinality({i \in DOMAIN x : x[i] = l}) =
             Cardinality({i \in DOMAIN y : y[i] = l})

\* C12: sort_l2(sort_l2(book)) = sort_l2(book) for every book, whatever the
\* order of its levels and also when several levels have the same price: a
\* second sort_l2 returns the book it was given.
C12_SortL2Idempotent ==
    /\ sorts >= 1 => sort_l2(ob) = ob
    /\ sorts >= 2 => ob = ob_before
    /\ sorts >= 1 => ob = sort_l2(ob_raw)

\* C12 witness: sort_l2 was applied twice to a book whose bids hold one
\* price at two levels of different quantity.
C12_Witness ==
    /\ sorts = 2
    /\ ob = ob_before
    /\ \E i, j \in DOMAIN ob_raw.bids :
         /\ i < j
         /\ ob_raw.bids[i].price = ob_raw.bids[j].price
         /\ ob_raw.bids[i].qty # ob_raw.bids[j].qty

\* C13 as stated: after sort_l2 the bid prices are strictly descending and
\* the ask prices strictly ascending, for every input book.
C13_StrictlySorted ==
    sorts >= 1 => StrictlyDescending(ob.bids) /\ StrictlyAscending(ob.asks)

\* C13 amended: after sort_l2 the bids are in descending and the asks in
\* ascending price order, each side holding the levels it was given, none
\* dropped or merged; a side is strictly ordered exactly when no price
\* occurs twice in the input side.
C13_SortedKeepingEveryLevel ==
    sorts >= 1 =>
        /\ Descending(ob.bids)
        /\ Ascending(ob.asks)
        /\ SameLevels(ob.bids, ob_raw.bids)
        /\ SameLevels(ob.asks, ob_raw.asks)
        /\ StrictlyDescending(ob.bids) <=> ~SamePriceTwice(ob_raw.bids)
        /\ StrictlyAscending(ob.asks) <=> ~SamePriceTwice(ob_raw.asks)

\* C13 witness: asks sent in descending order with distinct prices came out
\* strictly ascending.
C13_Witness ==
    /\ sorts = 1
    /\ Len(ob_raw.asks) = 2
    /\ ob_raw.asks[1].price > ob_raw.asks[2].price
    /\ ob.asks = <<ob_raw.asks[2], ob_raw.asks[1]>>
    /\ StrictlyAscending(ob.asks)

\* C14 as stated: best_bid (best_ask) returns the price of the first bid
\* (ask) level when the side is not empty, and on an empty side a signal
\* that is neither 0 nor NaN; mid returns that signal unless both sides are
\* non-empty, and then the mean of best bid and best ask.
C14_EmptySideIsSignalled ==
    top # None =>
        LET r == top[1]
            signal(v) == ~v.nan /\ ~float_eq(v, Frac(0, 1))
        IN  /\ r.fn = "best_bid" =>
                 IF ob.bids # <<>> THEN r.value = Frac(ob.bids[1].price, 1)
                 ELSE signal(r.value)
            /\ r.fn = "best_ask" =>
                 IF ob.asks # <<>> THEN r.value = Frac(ob.asks[1].price, 1)
                 ELSE signal(r.value)
            /\ r.fn = "mid" =>
                 IF ob.bids # <<>> /\ ob.asks # <<>>
                 THEN float_eq(r.value,
                               Frac(ob.bids[1].price + ob.asks[1].price, 2))
                 ELSE signal(r.value)

--------------------------------------------------------------------------
(* Properties of walk_book *)

RECURSIVE SumSeq(_)
SumSeq(q) == IF q = <<>> THEN 0 ELSE q[Len(q)] + SumSeq(SubSeq(q, 1, Len(q) - 1))

\* the side opposing the order, and its capacity in quote currency
OpposingSide == IF side = "buy" THEN book.asks ELSE book.bids
CapOf(l) == l.price * l.qty
Capacity == SumSeq([i \in DOMAIN OpposingSide |-> CapOf(OpposingSide[i])])
WalkInProgress == walkPc \in {"loop", "after_loop", "returned"}
WalkReturned == walkPc = "returned"
\* remaining notional before the i-th level is visited
RemainingBefore(i) == trade_volume_quote - SumSeq(SubSeq(takes, 1, i - 1))

\* C4 as stated: when the capacity of the opposing side is smaller than the
\* requested notional, walk_book returns the insufficient-liquidity sentinel
\* (NaN, 0.0) and not an average price.
C4_ThinBookGivesSentinel ==
    (WalkReturned /\ Capacity < trade_volume_quote) =>
        /\ walkResult[1].avg_exec = NaN
        /\ walkResult[1].filled_base.num = 0

C6_LevelsConsumedInBookOrder ==
    /\ \A i, j \in DOMAIN OpposingSide :
         i < j => IF side = "buy"
                  THEN OpposingSide[i].price <= OpposingSide[j].price
                  ELSE OpposingSide[i].price >= OpposingSide[j].price
    /\ WalkInProgress =>
         /\ Len(takes) <= Len(OpposingSide)
         /\ walkPc = "loop" => lvl = Len(takes) + 1
         /\ \A i \in DOMAIN takes :
              /\ takes[i] = Min(RemainingBefore(i), CapOf(OpposingSide[i]))
              /\ takes[i] > 0 =>
                   \A j \in 1..(i - 1) : takes[j] = CapOf(OpposingSide[j])
              /\ RemainingBefore(i + 1) = 0 => i = Len(takes)
    /\ (WalkReturned /\ book = ExampleBook /\ side = "buy"
          /\ trade_volume_quote = 150) => takes = <<100, 50>>

\* C6 witness: the worked example has returned with takes 100 and 50.
C6_Witness ==
    /\ WalkReturned
    /\ book = ExampleBook
    /\ trade_volume_quote = 150
    /\ takes = <<100, 50>>
    /\ walkResult[1].filled_base = Frac(100 * (BaseDen \div 100) + 50 * (BaseDen \div 101), BaseDen)

--------------------------------------------------------------------------
(* Properties of price_impact_pct *)

ImpactReturned == impactPc = "returned"
\* walk_book's report of insufficient liquidity: (nan, 0.0)
ReportsInsufficient(res) == res.avg_exec.nan /\ res.filled_base.num = 0
MidUndefined == book.bids = <<>> \/ book.asks = <<>>
\* twice the mid of a book with both sides
TwiceMid == book.bids[1].price + book.asks[1].price

\* C15: price_impact_pct returns NaN, its undefined sentinel, whenever
\* walk_book reported insufficient liquidity, or a side of the book is empty,
\* or the mid is not positive; in every other case it returns the number
\* (averagePrice - mid) / mid * 100.
C15_ImpactUndefinedOrRelativeToMid ==
    ImpactReturned =>
        LET res == walkResult[1]
            avg == res.avg_exec
        IN  IF \/ ReportsInsufficient(res)
               \/ MidUndefined
               \/ TwiceMid <= 0
            THEN impact[1] = NaN
            ELSE /\ ~impact[1].nan
                 /\ float_eq(impact[1],
                             Frac(100 * (2 * avg.num - TwiceMid * avg.den),
                                  avg.den * TwiceMid))

\* C15 witness: a buy that walked two ask levels of a book with both sides
\* got a positive impact, a number.
C15_Witness ==
    /\ ImpactReturned
    /\ side = "buy"
    /\ Len(takes) = 2
    /\ takes[2] > 0
    /\ ~MidUndefined
    /\ TwiceMid > 0
    /\ ~impact[1].nan
    /\ impact[1].num * impact[1].den > 0

\* the book has both sides, at positive prices, and its best bid is not
\* above its best ask
NonCrossed ==
    /\ ~MidUndefined
    /\ 0 < book.bids[1].price
    /\ book.bids[1].price <= book.asks[1].price
\* the average price of the walk is above (buy) or below (sell) the mid
WorseThanMid ==
    LET avg == Norm(walkResult[1].avg_exec.num, walkResult[1].avg_exec.den)
    IN  /\ ~walkResult[1].avg_exec.nan
        /\ side = "buy" => 2 * avg.num > TwiceMid * avg.den
        /\ side = "sell" => 2 * avg.num < TwiceMid * avg.den

\* C24: on a non-crossed book with both sides non-empty, price_impact_pct is
\* positive or zero whenever the simulated execution is worse than mid, for
\* buys (average price above mid) and for sells (average price below mid)
\* alike.
C24_WorseThanMidIsNonNegative ==
    (ImpactReturned /\ NonCrossed /\ WorseThanMid) =>
        /\ ~impact[1].nan
        /\ Norm(impact[1].num, impact[1].den).num >= 0

\* no level was read and nothing was returned
NothingWalked ==
    /\ lvl = 0
    /\ takes = <<>>
    /\ walkResult = None
    /\ impact = None

\* C26: walk_book, and price_impact_pct through it, rejects a notional that
\* is zero or negative with an error raised before any level of the book is
\* read, for both sides and for every book, an empty one included: the only
\* step such a call takes is the raise, and it ends raised with no level
\* visited and no value returned.
C26_NonPositiveNotionalRejectedAtOnce ==
    /\ [](trade_volume_quote <= 0 =>
            /\ walkPc \in {"call", "raised"}
            /\ impactPc \in {"walking", "raised"}
            /\ NothingWalked)
    /\ [][(trade_volume_quote <= 0 /\ walkPc = "call") => walkPc' = "raised"]_vars

\* C26 witness: a sell of notional 0 on a book with no level at all ended
\* in the error, in walk_book and in price_impact_pct.
C26_Witness ==
    /\ trade_volume_quote = 0
    /\ side = "sell"
    /\ book = OrderBook(<<>>, <<>>)
    /\ walkPc = "raised"
    /\ impactPc = "raised"
    /\ NothingWalked

--------------------------------------------------------------------------
(* Properties of Pair.parse *)

\* C16 as stated: Pair.parse returns a Pair whose base and quote are both
\* non-empty upper-case strings, or raises; it returns no pair with an empty
\* base or an empty quote.
C16_BaseAndQuoteNonEmpty ==
    /\ pairPc \in {"call", "returned", "raised"}
    /\ pairPc = "returned" =>
         /\ pair[1].base # <<>>
         /\ pair[1].quote # <<>>
         /\ str_upper(pair[1].base) = pair[1].base
         /\ str_upper(pair[1].quote) = pair[1].quote

--------------------------------------------------------------------------
(* Properties of the aggregator *)

AggDone == aggPc = "done"
AggAll == aggResult[1].all
ReturnedVenues == {v \in DOMAIN task : task[v] = "returned"}
RaisedVenues == {v \in DOMAIN task : task[v] = "raised"}
\* the places of the completion order the loop has taken so far whose task returned
TakenReturned ==
    {k \in 1..consumed : k <= Len(completed) /\ task[completed[k]] = "returned"}
\* the k-th smallest element of a set of integers
RECURSIVE KthOf(_, _)
KthOf(S, k) ==
    LET m == CHOOSE x \in S : \A y \in S : x <= y
    IN  IF k = 1 THEN m ELSE KthOf(S \ {m}, k - 1)
MaxBidOf(qs) == CHOOSE b \in {qs[i].quote.bid : i \in DOMAIN qs} :
                    \A i \in DOMAIN qs : qs[i].quote.bid <= b
MinAskOf(qs) == CHOOSE a \in {qs[i].quote.ask : i \in DOMAIN qs} :
                    \A i \in DOMAIN qs : qs[i].quote.ask >= a

\* C2: whatever subset of the venue calls raises, best_across_venues never
\* raises, and on return `all` holds exactly one VenueQuote (with the quote the
\* venue returned) for each venue that returned and none for a venue that
\* raised; so with one failure among three venues `all` has length 2.
C2_PartialFailureTolerated ==
    /\ aggPc # "raised"
    /\ AggDone =>
         /\ \A v \in ReturnedVenues :
              /\ Cardinality({i \in DOMAIN AggAll : AggAll[i].venue = v}) = 1
              /\ \E i \in DOMAIN AggAll : AggAll[i] = VenueQuote(v, taskQuote[v][1])
         /\ \A v \in RaisedVenues : \A i \in DOMAIN AggAll : AggAll[i].venue # v
         /\ Len(AggAll) = Cardinality(ReturnedVenues)
         /\ (Len(exchanges) = 3 /\ Cardinality(RaisedVenues) = 1) => Len(AggAll) = 2

\* C2 witness: three venues, exactly one raised, and the call returned with
\* the two other quotes.
C2_Witness ==
    /\ AggDone
    /\ Len(exchanges) = 3
    /\ Cardinality(RaisedVenues) = 1
    /\ Len(AggAll) = 2
    /\ aggResult[1].best_bid # None

\* C3: over a non-empty list of quotes the best bid is the earliest quote of
\* the list whose bid is the maximum bid, and the best ask the earliest quote
\* whose ask is the minimum ask.
C3_BestWithFirstSeenTieBreak ==
    (AggDone /\ AggAll # <<>>) =>
        LET firstBid == CHOOSE i \in DOMAIN AggAll :
                          /\ AggAll[i].quote.bid = MaxBidOf(AggAll)
                          /\ \A j \in 1..(i - 1) : AggAll[j].quote.bid # MaxBidOf(AggAll)
            firstAsk == CHOOSE i \in DOMAIN AggAll :
                          /\ AggAll[i].quote.ask = MinAskOf(AggAll)
                          /\ \A j \in 1..(i - 1) : AggAll[j].quote.ask # MinAskOf(AggAll)
        IN  /\ aggResult[1].best_bid =
                 Some([venue |-> AggAll[firstBid].venue, price |-> MaxBidOf(AggAll)])
            /\ aggResult[1].best_ask =
                 Some([venue |-> AggAll[firstAsk].venue, price |-> MinAskOf(AggAll)])
            /\ select_best(AggAll) = <<Some(AggAll[firstBid]), Some(AggAll[firstAsk])>>

\* C3 witness: two venues tie on the best bid and on the best ask, the one
\* submitted later completed first, and it is the one selected on both sides.
C3_Witness ==
    /\ AggDone
    /\ Len(AggAll) >= 2
    /\ AggAll[1].venue > AggAll[2].venue
    /\ AggAll[1].quote.bid = AggAll[2].quote.bid
    /\ AggAll[1].quote.ask = AggAll[2].quote.ask
    /\ AggAll[1].quote.bid = MaxBidOf(AggAll)
    /\ AggAll[1].quote.ask = MinAskOf(AggAll)
    /\ aggResult[1].best_bid[1].venue = AggAll[1].venue
    /\ aggResult[1].best_ask[1].venue = AggAll[1].venue

\* C8: in the result, mid is present exactly when best_bid and best_ask are,
\* and it is then (highest bid of all quotes + lowest ask of all quotes) / 2,
\* the two prices coming from whichever venues hold them.
C8_MidOfCrossVenueBest ==
    AggDone =>
        /\ (aggResult[1].mid # None) <=>
             (aggResult[1].best_bid # None /\ aggResult[1].best_ask # None)
        /\ (aggResult[1].best_bid # None) <=> (AggAll # <<>>)
        /\ (aggResult[1].best_ask # None) <=> (AggAll # <<>>)
        /\ aggResult[1].mid # None =>
             /\ aggResult[1].mid[1].den = 2
             /\ aggResult[1].mid[1].num =
                  aggResult[1].best_bid[1].price + aggResult[1].best_ask[1].price
             /\ aggResult[1].mid[1].num = MaxBidOf(AggAll) + MinAskOf(AggAll)

\* C8 witness: best bid and best ask come from two different venues and the
\* mid differs from the mid of every single venue's quote.
C8_Witness ==
    /\ AggDone
    /\ aggResult[1].mid # None
    /\ aggResult[1].best_bid[1].venue # aggResult[1].best_ask[1].venue
    /\ \A i \in DOMAIN AggAll :
         AggAll[i].quote.bid + AggAll[i].quote.ask # aggResult[1].mid[1].num

\* C9: when no venue returned a quote (no venue at all, or every call raised)
\* best_across_venues still returns, with best_bid, best_ask and mid absent
\* and `all` empty.
C9_EmptyResultIsNotAnError ==
    /\ (aggPc = "awaiting" /\ consumed = Len(exchanges)) => ENABLED GatherReturn
    /\ aggPc # "raised"
    /\ (AggDone /\ ReturnedVenues = {}) =>
         aggResult = Some([best_bid |-> None, best_ask |-> None, mid |-> None,
                           all |-> <<>>])

\* C9 witness: at least two venues, every call raised, and the call returned.
C9_Witness ==
    /\ AggDone
    /\ Len(exchanges) >= 2
    /\ RaisedVenues = DOMAIN task
    /\ AggAll = <<>>

\* C10: every task is created before the first await; `results` lists the
\* returned venues in the order in which they completed, not the order of
\* submission; and a completed task waiting to be taken can be taken whatever
\* tasks submitted before it are still pending.
C10_CompletionOrder ==
    /\ (aggPc = "call") => (consumed = 0 /\ completed = <<>>)
    /\ (aggPc # "call") => \A v \in DOMAIN task : task[v] # "none"
    /\ Len(results) = Cardinality(TakenReturned)
    /\ \A i \in DOMAIN results :
         LET v == completed[KthOf(TakenReturned, i)]
         IN  results[i] = VenueQuote(v, taskQuote[v][1])
    /\ (aggPc = "awaiting" /\ consumed < Len(completed)) =>
         ENABLED (AwaitResult \/ AwaitException)

\* C10 witness: the result of a venue is in `results` while a venue submitted
\* before it is still pending.
C10_Witness ==
    /\ Len(results) >= 1
    /\ \E u \in DOMAIN task : u < results[1].venue /\ task[u] = "pending"

SomeVenueNeverCompletes == \E v \in DOMAIN responds : ~responds[v]
EveryVenueCompletes == \A v \in DOMAIN responds : responds[v]

\* C7 as stated: with several venues of which one never completes its call,
\* the aggregation still eventually returns.
C7_ReturnsDespiteSilentVenue ==
    (Len(exchanges) >= 2 /\ SomeVenueNeverCompletes) ~> AggDone

\* C7 amended: the aggregation eventually returns when every venue's call
\* eventually completes (by returning or by raising); it never returns while a
\* call is still outstanding, so a venue that never completes keeps it from
\* returning.
C7_ReturnsOnceAllComplete ==
    /\ EveryVenueCompletes ~> AggDone
    /\ [](AggDone => \A v \in DOMAIN task : task[v] \in {"returned", "raised"})
    /\ [](SomeVenueNeverCompletes => ~AggDone)

\* C7 witness: every venue but one has completed and been taken by the loop,
\* one never completes, and gather_quotes is still awaiting.
C7_Witness ==
    /\ Len(exchanges) >= 2
    /\ aggPc = "awaiting"
    /\ Cardinality({v \in DOMAIN responds : ~responds[v]}) = 1
    /\ consumed = Len(exchanges) - 1
    /\ ReturnedVenues # {}

--------------------------------------------------------------------------
(* Properties of validate_mapping and get_exchange_symbol *)

USDT == <<"U", "S", "D", "T">>
USD == <<"U", "S", "D">>
Validated == apiPc = "returned" /\ api_call.fn = "validate_mapping"
Reversed == apiPc = "returned" /\ api_call.fn = "get_exchange_symbol"
\* the exchange symbols of base b quoted in USDT: "BTCUSDT", "BTC-USDT",
\* "1000BONK-USDT", and for BTC also the XBT spelling ("XBT-USDT")
UsdtQuoted(b) ==
    {m \o s \o sep \o USDT :
        m \in Multipliers, sep \in {<<"-">>, <<>>},
        s \in {b} \cup (IF b = <<"B", "T", "C">> THEN {<<"X", "B", "T">>} ELSE {})}

\* C21: validate_mapping gives the outcomes the demo lists as expected: a
\* USDT-quoted exchange symbol of base b ("BTCUSDT", "XBT-USDT") is valid
\* against the universal symbol b/USDT and not valid against b/USD
\* ("BONK-USDT" against "BONK/USD"), while "1000BONK-USD" is valid against
\* "BONK/USD".
C21_ValidationAsTheDemoExpects ==
    Validated =>
        /\ \A b \in ApiBases :
             api_call.exchange_symbol \in UsdtQuoted(b) =>
                /\ api_call.expected_universal = b \o <<"/">> \o USDT
                      => api_result = Some(TRUE)
                /\ api_call.expected_universal = b \o <<"/">> \o USD
                      => api_result = Some(FALSE)
        /\ ( /\ api_call.exchange_symbol =
                  <<"1", "0", "0", "0">> \o BONK \o <<"-">> \o USD
             /\ api_call.expected_universal = BONK \o <<"/">> \o USD )
           => api_result = Some(TRUE)

\* C23: get_exchange_symbol formats a universal symbol by the target venue's
\* own rule, so that binance, okx and bitmart, whose native formats differ,
\* receive pairwise different strings for the same universal symbol.
C23_VenuesGetTheirOwnFormat ==
    ( /\ Reversed
      /\ api_call.universal_symbol \in UniversalSymbols
      /\ api_call.exchange \in {"binance", "okx", "bitmart"} )
    => \A other \in {"binance", "okx", "bitmart"} \ {api_call.exchange} :
          api_result #
              Some(get_exchange_symbol(api_call.universal_symbol, other))

--------------------------------------------------------------------------
(* Properties of the mapper: multiplier prefixes and quote classes *)

INCH1 == <<"1", "I", "N", "C", "H">>
DOGE == <<"D", "O", "G", "E">>
SHIB == <<"S", "H", "I", "B">>

\* C22: a base ticker that itself begins with a digit is not taken for a
\* multiplier prefix: "1INCH-USDT" keeps the base asset "1INCH", while the
\* true multiplier prefixes of "1000BONK-USDT", "100SHIB-USDT" and
\* "10DOGE-USDT" are stripped.
C22_DigitTickerIsNoMultiplier ==
    MapReturned =>
        /\ exchange_symbol = INCH1 \o <<"-">> \o USDT
              => mapping[1].base_asset = INCH1
        /\ exchange_symbol = <<"1", "0", "0", "0">> \o BONK \o <<"-">> \o USDT
              => mapping[1].base_asset = BONK
        /\ exchange_symbol = <<"1", "0", "0">> \o SHIB \o <<"-">> \o USDT
              => mapping[1].base_asset = SHIB
        /\ exchange_symbol = <<"1", "0">> \o DOGE \o <<"-">> \o USDT
              => mapping[1].base_asset = DOGE

QuoteClasses == {"USD", "EUR", "GBP", "BTC", "ETH", "OTHER"}
\* what split_base_quote made of the cleaned input of the call
ParsedInput == split_base_quote(normalize_symbol(exchange_symbol, exchange))

\* C25: for every successfully parsed symbol the quote class of the mapping
\* is one of USD, EUR, GBP, BTC, ETH, OTHER, never a stablecoin's own class;
\* and when the parsed quote token is a USD-pegged stablecoin the class is
\* USD and the metadata records that ticker as the stablecoin type.
C25_QuoteClassFoldsStablecoins ==
    (MapReturned /\ ParsedInput.ok) =>
        /\ mapping[1].quote_type \in QuoteClasses
        /\ ParsedInput.quote \in UsdStablecoins =>
              /\ mapping[1].quote_type = "USD"
              /\ mapping[1].metadata.stablecoin_type = Some(ParsedInput.quote)

\* C25 witness: a symbol quoted in DAI, a stablecoin with a class of its own
\* in the table, was mapped to the class USD with DAI noted.
C25_Witness ==
    /\ MapReturned
    /\ ParsedInput.ok
    /\ ParsedInput.quote = <<"D", "A", "I">>
    /\ mapping[1].quote_type = "USD"
    /\ mapping[1].metadata.stablecoin_type = Some(<<"D", "A", "I">>)

--------------------------------------------------------------------------
(* Properties of HTTPClient.get_json *)

HttpEnded == httpPc \in {"returned", "raised"}
\* the outcomes after which get_json issues another request
Retriable(o) ==
    \/ "error" \in DOMAIN o
    \/ "status" \in DOMAIN o /\ o.status \in {429, 500, 502, 503, 504}
Is2xx(o) == "status" \in DOMAIN o /\ 200 <= o.status /\ o.status < 300
IsOtherStatus(o) == "status" \in DOMAIN o /\ ~Retriable(o) /\ ~Is2xx(o)
LastSent == sent[Len(sent)]

\* C27: one call of get_json issues at most retries+1 requests and always
\* ends in a return or a raised error when every request completes; it
\* issues a further request only after a 429, a 500/502/503/504 or a client
\* or timeout error; it returns on the first 2xx response with a JSON body;
\* on any other status it raises at once; and when the attempts are used up
\* it raises "Request failed after retries+1 attempts".
C27_BoundedRetriesThenAnEnd ==
    /\ [](/\ Len(sent) <= retries + 1
          /\ \A k \in 1..(Len(sent) - 1) : Retriable(sent[k])
          /\ httpPc = "returned" =>
                /\ Is2xx(LastSent)
                /\ LastSent.body = "json"
          /\ (sent # <<>> /\ Is2xx(LastSent) /\ LastSent.body = "json") =>
                httpResult = Some([kind |-> "return"])
          /\ (sent # <<>> /\ IsOtherStatus(LastSent)) =>
                /\ httpPc = "raised"
                /\ httpResult[1].error = "HTTP status"
          /\ (HttpEnded /\ Len(sent) = retries + 1 /\ Retriable(LastSent)) =>
                \/ /\ httpResult[1].error = "Request failed"
                   /\ httpResult[1].attempts = retries + 1
                \/ /\ LastSent.status = 429
                   /\ LastSent.retry_after = "date"
                   /\ httpResult[1].error = "ValueError")
    /\ <>HttpEnded

\* C27 witness: with retries = 2, a 429, a timeout and a 503 used up the
\* three attempts and the call raised "Request failed after 3 attempts".
C27_Witness ==
    /\ retries = 2
    /\ Len(sent) = 3
    /\ "status" \in DOMAIN sent[1] /\ sent[1].status = 429
    /\ sent[2] = [error |-> "TimeoutError"]
    /\ sent[3] = [status |-> 503]
    /\ httpPc = "raised"
    /\ httpResult[1].error = "Request failed"
    /\ httpResult[1].attempts = 3

--------------------------------------------------------------------------
(* Properties of UnifiedTradingService.place_order *)

\* the names of the trading-capable exchanges, in list order
TradingNames ==
    LET supports(ex) == ex.supports_trading
        l == SelectSeq(svc_exchanges, supports)
    IN  [i \in DOMAIN l |-> l[i].name]

\* C28: place_order called without a venue tries the trading-capable venues
\* one at a time in list order; it returns a success result naming the first
\* venue whose place_order succeeds, without contacting any later venue; it
\* returns the failure result with venue "all" only if every trading venue
\* raised; and it never raises itself.
C28_FirstWorkingVenueInListOrder ==
    venue = None =>
        /\ tradePc # "raised"
        /\ Len(contacted) <= Len(TradingNames)
        /\ \A k \in DOMAIN contacted :
              /\ contacted[k].name = TradingNames[k]
              /\ k < Len(contacted) => contacted[k].outcome = "raised"
        /\ (contacted # <<>> /\ contacted[Len(contacted)].outcome = "returned") =>
              /\ tradePc = "returned"
              /\ tradeResult[1].success
              /\ tradeResult[1].venue = contacted[Len(contacted)].name
        /\ (tradePc = "returned" /\ tradeResult[1].success) =>
              /\ contacted # <<>>
              /\ contacted[Len(contacted)].outcome = "returned"
        /\ (tradePc = "returned" /\ ~tradeResult[1].success) =>
              /\ tradeResult[1].venue = "all"
              /\ Len(contacted) = Len(TradingNames)
              /\ \A k \in DOMAIN contacted : contacted[k].outcome = "raised"

\* C28 witness: of three exchanges the first does no trading, the second
\* raised and the third accepted the order; the result names the third.
C28_Witness ==
    /\ venue = None
    /\ Len(svc_exchanges) = 3
    /\ ~svc_exchanges[1].supports_trading
    /\ Len(contacted) = 2
    /\ contacted[1] = [name |-> svc_exchanges[2].name, outcome |-> "raised"]
    /\ contacted[2] = [name |-> svc_exchanges[3].name, outcome |-> "returned"]
    /\ tradePc = "returned"
    /\ tradeResult[1] = TradingResult(TRUE, svc_exchanges[3].name, None)

--------------------------------------------------------------------------
(* Properties of the capture sessions *)

\* C29: capture sessions of one DataCaptureManager do not disturb each
\* other's storage: whatever sessions were stopped or replaced before, and
\* however the capture loops interleave with those calls, the last batch
\* stored by the service of every session the manager holds was stored
\* successfully.
C29_SessionsDoNotDisturbStorage ==
    \A sid \in SessionIds :
        services[sid] # 0 => svcs[services[sid]].stored # "failed"

--------------------------------------------------------------------------
(* Properties of S3ParquetStorage *)

InBuffer(id) == \E i \in DOMAIN buffer : buffer[i] = id
InSomeFile(id) ==
    \E sec \in DOMAIN files : \E i \in DOMAIN files[sec] : files[sec][i] = id

\* C30: no accepted snapshot is lost while the storage is open: every
\* snapshot accepted so far is still in the buffer or in a batch that was
\* written out; a store call that returned success leaves fewer than
\* max_buffer_size snapshots buffered; and the buffer is cleared only by a
\* write that succeeded, which put the whole buffer into a file.
C30_NoAcceptedSnapshotLost ==
    /\ [](s3Pc = "open" =>
            /\ \A id \in 1..accepted : InBuffer(id) \/ InSomeFile(id)
            /\ (s3_last # None /\ s3_last[1].ok) => Len(buffer) < MaxBufferSize)
    /\ [][LET held == buffer \o [i \in 1..(accepted' - accepted) |-> accepted + i]
           IN  (held # <<>> /\ buffer' = <<>>) => files'[clock] = held]_vars

==========================================================================
